---- MODULE Spec2Model ----
(***************************************************************************)
(* Verification model of bluemira's magnetostatic circuits                 *)
(* (src/bluemira/magnetostatics/circuits.py): PlanarCircuit construction   *)
(* (planarity check, half-angle computation, source generation) and        *)
(* HelmholtzCage (patterning and ripple); and of the optimisation          *)
(* variables (src/bluemira/utilities/opt_variables.py).                    *)
(*                                                                         *)
(* Number representation.  Shapes are polylines whose vertices have even   *)
(* integer coordinates (so every midpoint is an integer point) and whose   *)
(* edges run along one of the eight compass directions, so that every      *)
(* turning angle is a multiple of 45 degrees and 0.5 * arccos(.) is an     *)
(* exact multiple of pi/8.  Radians are counted in units of pi/8, degrees  *)
(* in units of half a degree (rad2deg: 1 unit of pi/8 = 45 half-degrees).  *)
(* Rational quantities (the projected point, cage angles, the ripple) are  *)
(* kept as numerator/denominator pairs and compared by cross               *)
(* multiplication.  The code computes in doubles: where a comparison falls *)
(* exactly on its threshold and the operands are rounded (the projected    *)
(* point on an edge of the polygon; on a shape that was translated and     *)
(* rotated, the half-angle of a right-angle corner against pi/4 and the    *)
(* two midpoints of a reversal corner against each other) every outcome    *)
(* the rounding can produce is a successor (FloatOutcomes).                *)
(***************************************************************************)
EXTENDS Integers, Sequences, FiniteSets, TLC

(***************************************************************************)
(* Bounds of the model                                                     *)
(***************************************************************************)
\* largest number of edges of a mesh boundary
MaxEdges == 5

\* largest number of constraints added to a template builder
MaxConstraints == 1

\* largest number of points of an input shape
MaxPts == 5

\* even grid coordinates of the input vertices (x and z)
Coord == {0, 2, 4}

\* first vertices of the input shapes: a corner, an edge midpoint and the
\* centre of the grid (every other start is one of these up to a symmetry of
\* the grid)
StartPoints == {<<0, 0>>, <<2, 0>>, <<2, 2>>}

VARIABLES
  \* ---- PlanarCircuit construction ----
  shape,          \* the caller's shape: sequence of <<x, y, z>>
  source_class,   \* "Trapezoidal" | "Polyhedral"
  pc,             \* position of the constructor
  t_shape,        \* self._t_shape: the shape in the x-z working plane, <<x, z>>
  clockwise,      \* self._clockwise
  betas,          \* betas of _get_betas_alphas (units of pi/8 while computing)
  alphas,         \* alphas of _get_betas_alphas
  calls,          \* log of the _get_half_angle calls made so far
  acute_warnings, \* number of acute-angle warnings emitted
  self_shape,     \* self.shape (<<>> until set)
  self_d_l,       \* self.d_l
  self_midpoints, \* self.midpoints
  deg_betas,      \* betas as returned (half-degrees)
  deg_alphas,     \* alphas as returned (half-degrees)
  sources,        \* the list of sources generated so far
  warning_called, \* the local flag of _generate_sources
  endcap_warnings,\* number of unequal end-cap warnings emitted
  current,        \* the current argument of the constructor
  xs_args,        \* the cross-section arguments of the constructor
  shape_before    \* the coordinates of the caller's shape when the
                  \* constructor was called

VARIABLES
  \* ---- HelmholtzCage ----
  n_TF2,          \* twice self.n_TF (the count may be a half-integer); 0 - 1
                  \* before the constructor has run
  objs,           \* the heap of current sources: objs[id] is the rotation
                  \* of object id about z, in degrees from the template's
                  \* original plane, as a fraction [num, den]
  cage_pc,        \* position of the cage constructor
  angles,         \* the angles of the patterning loop (np.linspace)
  cage_sources,   \* sources of _pattern / self.sources: object ids
  rotations,      \* number of rotations applied after construction
  profile,        \* the field profiles of the primitive sources of the
                  \* template circuit, one per child: the toroidal field the
                  \* child produces in a plane, by the angular distance of
                  \* the plane from the circuit:
                  \* <<in the plane, nearer than 90 degrees, farther>>
  ripple_planes,  \* planes of the last ripple call, degrees
  ripple_field,   \* ripple_field of the last ripple call
  ripple_value    \* the value returned by the last ripple call [num, den]

VARIABLES
  \* ---- OptVariables ----
  var_dict,       \* OptVariables._var_dict in insertion order: the
                  \* BoundedVariables [name, value, lower_bound, upper_bound,
                  \* fixed]
  last_op         \* the last operation called: [op, name, raised, old]

opt_vars == <<var_dict, last_op>>

VARIABLES
  \* ---- one BoundedVariable in double precision ----
  d_var,          \* the variable: [value, lower_bound, upper_bound], doubles
  d_x,            \* the entry of x_norm given to set_values_from_norm, in
                  \* halves; None before the call
  d_pc,           \* "idle" | "built" | "set" | "raised" | "got"
  d_norm          \* the entries h of the unit inputs for which
                  \* get_normalised_values returned h/2 (none: another value)

norm_vars == <<d_var, d_x, d_pc, d_norm>>

VARIABLES
  \* ---- PROCESSTemplateBuilder ----
  ixc,            \* self.ixc: the iteration-variable numbers, in order
  variables,      \* self.variables: name -> value
  bounds,         \* self.bounds: str(itvar) -> ("l" | "u" -> str(bound))
  constraints,    \* self._constraints: the constraint numbers, in order
  fimp,           \* self.fimp: the impurity concentrations
  minmax,         \* self.minmax
  values,         \* self.values: the fixed input values, by name
  tb_last         \* the last call: [op, arg, raised, listed], listed when
                  \* the iteration variable named was in ixc at the call

builder_vars == <<ixc, variables, bounds, constraints, fimp, minmax, values,
                  tb_last>>

VARIABLES
  \* ---- _get_mesh_boundary ----
  edges,          \* boundary.cells(): the edges as stored, <<v0, v1>>
  check_edge,     \* check_edge: 1 for an edge not walked yet, 0 otherwise
  index,          \* index: the row of the current edge (counted from 1)
  temp_edge,      \* temp_edge
  sorted_v,       \* sorted_v: the vertices walked, in order
  mesh_i,         \* the number of iterations of the loop done
  mesh_pc,        \* "idle" | "start" | "loop" | "done" | "error"
  points_sorted   \* the points returned

mesh_vars == <<edges, check_edge, index, temp_edge, sorted_v, mesh_i, mesh_pc,
               points_sorted>>

cage_vars == <<n_TF2, objs, cage_pc, angles, cage_sources, rotations, profile,
               ripple_planes, ripple_field, ripple_value>>

circuit_vars == <<shape, source_class, pc, t_shape, clockwise, betas, alphas,
                  calls, acute_warnings, self_shape, self_d_l, self_midpoints,
                  deg_betas, deg_alphas, sources, warning_called,
                  endcap_warnings, current, xs_args, shape_before>>

\* the current and the cross-section given to the constructor
circuit_args == <<current, xs_args, shape_before>>

vars == <<circuit_vars, cage_vars, opt_vars, norm_vars, builder_vars,
          mesh_vars>>

\* no set of optimisation variables is in use
OptIdle ==
  /\ var_dict = <<>>
  /\ last_op = [op |-> "idle", name |-> "", raised |-> FALSE, old |-> <<>>]

\* no mesh boundary is being retrieved
MeshIdle ==
  /\ edges = <<>>
  /\ check_edge = <<>>
  /\ index = 0
  /\ temp_edge = <<>>
  /\ sorted_v = <<>>
  /\ mesh_i = 0
  /\ mesh_pc = "idle"
  /\ points_sorted = <<>>

\* no template builder is in use
BuilderIdle ==
  /\ ixc = <<>>
  /\ variables = <<>>
  /\ bounds = <<>>
  /\ constraints = <<>>
  /\ fimp = <<>>
  /\ minmax = 0
  /\ values = <<>>
  /\ tb_last = [op |-> "idle", arg |-> "", raised |-> FALSE, listed |-> FALSE]

\* no variable in double precision is in use
NormIdle ==
  /\ d_var = <<>>
  /\ d_x = 0 - 1
  /\ d_pc = "idle"
  /\ d_norm = {}

\* no circuit is being constructed
CircuitIdle ==
  /\ shape = <<>>
  /\ source_class = "unset"
  /\ pc = "idle"
  /\ t_shape = <<>>
  /\ clockwise = FALSE
  /\ betas = <<>>
  /\ alphas = <<>>
  /\ calls = <<>>
  /\ acute_warnings = 0
  /\ self_shape = <<>>
  /\ self_d_l = <<>>
  /\ self_midpoints = <<>>
  /\ deg_betas = <<>>
  /\ deg_alphas = <<>>
  /\ sources = <<>>
  /\ warning_called = FALSE
  /\ endcap_warnings = 0
  /\ current = 0
  /\ xs_args = <<>>
  /\ shape_before = <<>>

\* no cage is being constructed
CageIdle ==
  /\ n_TF2 = 0 - 1
  /\ objs = <<>>
  /\ cage_pc = "idle"
  /\ angles = <<>>
  /\ cage_sources = <<>>
  /\ rotations = 0
  /\ profile = <<>>
  /\ ripple_planes = <<>>
  /\ ripple_field = <<>>
  /\ ripple_value = <<>>

\* what the steps of one component leave alone
not_circuit_vars == <<cage_vars, opt_vars, norm_vars, builder_vars, mesh_vars>>

not_cage_vars == <<circuit_vars, opt_vars, norm_vars, builder_vars, mesh_vars>>

not_opt_vars == <<circuit_vars, cage_vars, norm_vars, builder_vars, mesh_vars>>

not_norm_vars == <<circuit_vars, cage_vars, opt_vars, builder_vars, mesh_vars>>

not_builder_vars == <<circuit_vars, cage_vars, opt_vars, norm_vars, mesh_vars>>

not_mesh_vars == <<circuit_vars, cage_vars, opt_vars, norm_vars, builder_vars>>

(***************************************************************************)
(* Vector helpers (numpy arithmetic on 2-vectors and 3-vectors)            *)
(***************************************************************************)
Abs(n) == IF n < 0 THEN -n ELSE n

Sub2(a, b) == <<a[1] - b[1], a[2] - b[2]>>

Dot2(a, b) == a[1] * b[1] + a[2] * b[2]

Cross2(a, b) == a[1] * b[2] - a[2] * b[1]

Sub3(a, b) == <<a[1] - b[1], a[2] - b[2], a[3] - b[3]>>

Cross3(a, b) == <<a[2] * b[3] - a[3] * b[2],
                  a[3] * b[1] - a[1] * b[3],
                  a[1] * b[2] - a[2] * b[1]>>

Dot3(a, b) == a[1] * b[1] + a[2] * b[2] + a[3] * b[3]

\* np.diff(points, axis=0), for points of two or three coordinates
Diff(pts) ==
  [i \in 1..(Len(pts) - 1) |->
     [k \in 1..Len(pts[i]) |-> pts[i + 1][k] - pts[i][k]]]

\* points[:-1] + 0.5 * d_l  (exact: the coordinates are even)
Midpoints(pts) ==
  [i \in 1..(Len(pts) - 1) |->
     [k \in 1..Len(pts[i]) |-> (pts[i][k] + pts[i + 1][k]) \div 2]]

XZ(pts3) == [i \in 1..Len(pts3) |-> <<pts3[i][1], pts3[i][3]>>]

Min(a, b) == IF a < b THEN a ELSE b

Max(a, b) == IF a < b THEN b ELSE a

Reverse(s) == [i \in 1..Len(s) |-> s[Len(s) + 1 - i]]

(***************************************************************************)
(* The Coordinates capability consumed by the circuit (the geometry kernel *)
(* is outside the modelled sources)                                        *)
(***************************************************************************)
\* Coordinates.is_planar: every four points of the shape are coplanar
IsPlanar(pts3) ==
  LET n == Len(pts3)
  IN  \A i \in 1..n : \A j \in (i + 1)..n : \A k \in (j + 1)..n :
        \A l \in (k + 1)..n :
          Dot3(Cross3(Sub3(pts3[j], pts3[i]), Sub3(pts3[k], pts3[i])),
               Sub3(pts3[l], pts3[i])) = 0

\* the shape lies in a plane y = const, so that |normal_vector[1]| == 1.0
NormalIsY(pts3) == \A i \in 1..Len(pts3) : pts3[i][2] = pts3[1][2]

\* Coordinates.closed: the first and the last point coincide
Closed(pts) == Len(pts) > 2 /\ pts[1] = pts[Len(pts)]

\* twice the vector area of the polygon through the points (cyclic): the sum
\* of the cross products of consecutive points, along the normal about which
\* the points run counter-clockwise (right-hand rule)
RECURSIVE AreaVectorFrom(_, _)
AreaVectorFrom(pts3, i) ==
  IF i > Len(pts3) THEN <<0, 0, 0>>
  ELSE LET c == Cross3(pts3[i], pts3[(i % Len(pts3)) + 1])
           r == AreaVectorFrom(pts3, i + 1)
       IN  <<c[1] + r[1], c[2] + r[2], c[3] + r[3]>>

\* CheckCcw answering whether the points run clockwise about the axis
CheckCcw_Clockwise(pts3, axis) == Dot3(AreaVectorFrom(pts3, 1), axis) < 0

\* Coordinates.check_ccw(axis): the points run counter-clockwise about the
\* axis
CheckCcw(pts3, axis) == Dot3(AreaVectorFrom(pts3, 1), axis) > 0

\* in_polygon(x, z, poly) with include_edges=False, for the rational point
\* (X/D, Z/D), D > 0: ray casting over the n + 1 edges poly[i-1] -> poly[i % n],
\* a point on a vertex or on an edge is not inside.
RECURSIVE InPolygonLoop(_, _, _, _, _, _, _)
InPolygonLoop(X, Z, D, poly, i, prev, inside) ==
  IF i > Len(poly) THEN inside
  ELSE
    LET cur == poly[(i % Len(poly)) + 1]
        x0 == prev[1] * D
        z0 == prev[2] * D
        x1 == cur[1] * D
        z1 == cur[2] * D
        dz == z1 - z0
        lhs == (X - x0) * dz
        rhs == (Z - z0) * (x1 - x0)
    IN  IF X = x1 /\ Z = z1 THEN FALSE
        ELSE IF Min(z0, z1) < Z /\ Z <= Max(z0, z1) /\ X <= Max(x0, x1)
        THEN IF lhs = rhs THEN FALSE
             ELSE IF (dz > 0 /\ lhs < rhs) \/ (dz < 0 /\ lhs > rhs)
                  THEN InPolygonLoop(X, Z, D, poly, i + 1, cur, ~inside)
                  ELSE InPolygonLoop(X, Z, D, poly, i + 1, cur, inside)
        ELSE InPolygonLoop(X, Z, D, poly, i + 1, cur, inside)

InPolygon(X, Z, D, poly) == InPolygonLoop(X, Z, D, poly, 0, poly[1], FALSE)

(***************************************************************************)
(* PlanarCircuit: the half-angle at a vertex                               *)
(***************************************************************************)
\* the rational point (X/D, Z/D), D > 0, lies on an edge or on a vertex of
\* the polygon, closed from its last point to its first as in_polygon does
OnPolygonBoundary(X, Z, D, poly) ==
  \E i \in 1..Len(poly) :
    LET ax == poly[i][1] * D
        az == poly[i][2] * D
        bx == poly[(i % Len(poly)) + 1][1] * D
        bz == poly[(i % Len(poly)) + 1][2] * D
    IN  /\ (bx - ax) * (Z - az) = (bz - az) * (X - ax)
        /\ Min(ax, bx) <= X /\ X <= Max(ax, bx)
        /\ Min(az, bz) <= Z /\ Z <= Max(az, bz)

\* _point_inside_xz, lines 237-249: the values the test may return for the
\* point computed at lines 211-213, whose exact position is (X/D, Z/D).  The
\* polygon is read in reverse order when the clockwise flag is set.  The
\* point is computed in doubles (a square root, a division, products): it
\* lies within a few units in the last place of its exact position, so the
\* test gives the exact answer when that position is off the boundary of
\* the polygon; when it is on the boundary the rounded point falls on the
\* edge or on either side of it, and the test returns True or False.
\* D = 0 (p0 and p2 coincide exactly) leaves no exact position.  On whole
\* coordinates (rounded FALSE) the two midpoints are the same doubles,
\* v3 = 0/0, the point is nan and every comparison of in_polygon is false.
\* On a working shape that was translated and rotated (rounded TRUE) the
\* two midpoints may differ in the last place: v3 is then a unit vector of
\* no particular direction, the point is finite and the test may find it
\* inside or not.
PointInsideXZ(X, Z, D, cw, tshape, rounded) ==
  LET poly == IF cw THEN Reverse(tshape) ELSE tshape
  IN  IF D = 0 THEN (IF rounded THEN BOOLEAN ELSE {FALSE})
      ELSE IF OnPolygonBoundary(X, Z, D, poly) THEN BOOLEAN
      ELSE {InPolygon(X, Z, D, poly)}

\* 0.5 * arccos(clip(v1_hat . v2_hat, -1, 1)) in units of pi/8, for v1 and
\* v2 along compass directions (angle between them: 0, 45, 90, 135, 180)
HalfArccos(v1, v2) ==
  LET d == Dot2(v1, v2)
      c == Cross2(v1, v2)
  IN  IF c = 0 THEN (IF d > 0 THEN 0 ELSE 4)
      ELSE IF d > 0 THEN 1
      ELSE IF d = 0 THEN 2
      ELSE 3

\* SameDirection with the check left out
SameDirection_Never(v1, v2) == FALSE

\* np.isclose(norm(v1_hat - v2_hat), 0): the two unit vectors are equal
SameDirection(v1, v2) == Cross2(v1, v2) = 0 /\ Dot2(v1, v2) > 0

\* IsAcute with the comparison not strict
IsAcute_NotStrict(angle) == Abs(angle) >= 2

\* abs(angle) > 0.25 * np.pi, for an angle of exactly that many units of
\* pi/8
IsAcute(angle) == Abs(angle) > 2

\* ApplySign with the winding flip left out
ApplySign_NoWindingFlip(angle, inside, cw) ==
  IF ~inside THEN -angle ELSE angle

\* lines 221-225: negate when the projected point is not inside, negate
\* again when the clockwise flag is set
ApplySign(angle, inside, cw) ==
  LET a1 == IF ~inside THEN -angle ELSE angle
  IN  IF cw THEN -a1 ELSE a1

\* the projected point of lines 211-213, project_point = p0 + s * v3 / D
\* with v3 = p2 - p0, D = v3 . v3 and s = (p1 - p0) . v3, kept as the two
\* numerators over D
ProjectPoint(p0, p1, p2) ==
  LET v3 == Sub2(p2, p0)
      D == Dot2(v3, v3)
      s == Dot2(Sub2(p1, p0), v3)
  IN  <<p0[1] * D + s * v3[1], p0[2] * D + s * v3[2], D>>

\* The comparisons of _get_half_angle that are made on rounded doubles, and
\* the values each may take in a call _get_half_angle(p0, p1, p2):
\*   d_is_zero      np.isclose(d, 0.0), line 216;
\*   point_in_poly  the point-in-polygon test, line 219;
\*   over           the computed 0.5 * arccos(...) lies above the exact
\*                  half-angle, which decides line 227 when the exact
\*                  half-angle is pi/4.
\* rounded says that the working shape was translated to its centre of
\* mass and rotated (lines 182-185), so that its coordinates are rounded
\* doubles; a shape in a plane y = const is used as given (line 181) and
\* its whole coordinates, its midpoints and the unit vectors along the
\* compass directions give the exact outcome of every comparison.
FloatOutcomes(p0, p1, p2, cw, tshape, rounded) ==
  LET P == ProjectPoint(p0, p1, p2)
      D == P[3]
      onChord == D # 0 /\ P[1] = p1[1] * D /\ P[2] = p1[2] * D
      quarter == HalfArccos(Sub2(p1, p0), Sub2(p2, p1)) = 2
  IN  [d_is_zero : IF D = 0 /\ rounded THEN BOOLEAN ELSE {onChord},
       point_in_poly : PointInsideXZ(P[1], P[2], D, cw, tshape, rounded),
       over : IF rounded /\ quarter THEN BOOLEAN ELSE {FALSE}]

\* _get_half_angle(p0, p1, p2) with self._clockwise = cw and
\* self._t_shape = tshape, fl being the outcomes of the comparisons made on
\* rounded doubles.  The record is the call as logged: the points, the flag
\* used, the exact projected point (numerators and denominator), whether
\* the call left through a degenerate return, whether the projected point
\* was found inside, the unsigned angle, the value returned (both in units
\* of pi/8), whether the value computed lies above that many units by
\* rounding, whether the acute-angle warning was emitted, and the return
\* statement taken ("same_direction": line 210, "on_chord": line 217,
\* "signed": line 235; the point-in-polygon test of line 219 is reached by
\* the last only).
HalfAngle(p0, p1, p2, cw, tshape, fl) ==
  LET v1 == Sub2(p1, p0)
      v2 == Sub2(p2, p1)
      angle == HalfArccos(v1, v2)
      inside == fl.point_in_poly
      signed == ApplySign(angle, inside, cw)
      excess == fl.over /\ angle = 2
      base == [p0 |-> p0, p1 |-> p1, p2 |-> p2, cw |-> cw, unsigned |-> angle,
               proj |-> ProjectPoint(p0, p1, p2)]
  IN  IF SameDirection(v1, v2)
      THEN base @@
           [degenerate |-> TRUE, inside |-> FALSE, angle |-> 0,
            excess |-> FALSE, warned |-> FALSE, exit |-> "same_direction"]
      ELSE IF fl.d_is_zero
      THEN base @@
           [degenerate |-> TRUE, inside |-> FALSE, angle |-> 0,
            excess |-> FALSE, warned |-> FALSE, exit |-> "on_chord"]
      ELSE base @@
           [degenerate |-> FALSE, inside |-> inside, angle |-> signed,
            excess |-> excess, warned |-> IsAcute(signed) \/ excess,
            exit |-> "signed"]

\* the calls _get_half_angle(p0, p1, p2) as they may be logged after log,
\* the calls made before in the same construction: the computation is a
\* function of its arguments, so a call with the arguments of an earlier
\* one goes the way that one went
HalfAngles(p0, p1, p2, cw, tshape, rounded, log) ==
  LET same == {k \in 1..Len(log) :
                 log[k].p0 = p0 /\ log[k].p1 = p1 /\ log[k].p2 = p2}
  IN  IF same # {} THEN {log[k] : k \in same}
      ELSE {HalfAngle(p0, p1, p2, cw, tshape, fl) :
              fl \in FloatOutcomes(p0, p1, p2, cw, tshape, rounded)}

\* np.rad2deg on a list: units of pi/8 to half-degrees (22.5 deg = 45 units)
Rad2Deg(as) == [i \in 1..Len(as) |-> as[i] * 45]

(***************************************************************************)
(* Input shapes                                                            *)
(***************************************************************************)
\* an edge of the model: non-zero, along one of the eight compass directions
CompassEdge(v) ==
  v # <<0, 0>> /\ (v[1] = 0 \/ v[2] = 0 \/ Abs(v[1]) = Abs(v[2]))

\* the shape laid in the plane z = 0: the point (x, 0, z) becomes (x, z, 0)
LayFlat(pts3) == [i \in 1..Len(pts3) |-> <<pts3[i][1], pts3[i][3], 0>>]

\* the shape with its last point displaced perpendicular to the x-z plane
DisplaceLast(pts3) ==
  [i \in 1..Len(pts3) |->
     IF i = Len(pts3) THEN <<pts3[i][1], 1, pts3[i][3]>> ELSE pts3[i]]

SourceClasses == {"Trapezoidal", "Polyhedral"}

\* the constructor called, with the current [A] and the cross-section (two
\* half-sizes) given to it
CircuitArgs == {[class |-> "Trapezoidal", current |-> 2, xs |-> <<1, 1>>],
                [class |-> "Polyhedral", current |-> 0 - 1, xs |-> <<1, 2>>]}

(***************************************************************************)
(* PlanarCircuit construction                                              *)
(***************************************************************************)
CircuitInit ==
  /\ \E p \in StartPoints : shape = << <<p[1], 0, p[2]>> >>
  /\ source_class = "unset"
  /\ pc = "input"
  /\ t_shape = <<>>
  /\ clockwise = FALSE
  /\ betas = <<>>
  /\ alphas = <<>>
  /\ calls = <<>>
  /\ acute_warnings = 0
  /\ self_shape = <<>>
  /\ self_d_l = <<>>
  /\ self_midpoints = <<>>
  /\ deg_betas = <<>>
  /\ deg_alphas = <<>>
  /\ sources = <<>>
  /\ warning_called = FALSE
  /\ endcap_warnings = 0
  /\ current = 0
  /\ xs_args = <<>>
  /\ shape_before = <<>>
  /\ CageIdle
  /\ OptIdle
  /\ NormIdle
  /\ BuilderIdle
  /\ MeshIdle

\* deepcopy handing on the caller's object itself
CopyShape_Alias(pts3) == [obj |-> pts3, alias |-> TRUE]

\* line 141: deepcopy(shape), a new object with the same coordinates
CopyShape(pts3) == [obj |-> pts3, alias |-> FALSE]

\* the sum of coordinate k of the first n points
RECURSIVE SumCoord(_, _, _)
SumCoord(pts3, k, n) ==
  IF n = 0 THEN 0 ELSE pts3[n][k] + SumCoord(pts3, k, n - 1)

\* shape.translate(-center_of_mass), in place.  The centre is the mean of
\* the n points; to stay in whole numbers the translated coordinates are
\* given in units of 1/n: n * p - (sum of the points).
Translate(pts3) ==
  LET n == Len(pts3)
  IN  [i \in 1..n |->
         [k \in 1..3 |-> n * pts3[i][k] - SumCoord(pts3, k, n)]]

\* the shape in the plane z = 0 turned a quarter turn about the x-axis:
\* (x, y, 0) goes to (x, 0, y) when sense is 1, to (x, 0, -y) when it is -1
QuarterTurn(pts3, sense) ==
  [i \in 1..Len(pts3) |-> <<pts3[i][1], 0, sense * pts3[i][2]>>]

\* rot_mat @ shape for a shape in the plane z = 0, lines 184-185: the
\* rotation that rotation_matrix_v1v2 makes of the normal of the shape and
\* (0, -1, 0), a quarter turn about the x-axis.  Which way it turns depends
\* on the sense of the normal that Coordinates.normal_vector gives to the
\* point sequence (along +z or along -z) and on the sense of the matrix that
\* rotation_matrix_v1v2 returns; both belong to the geometry kernel, so the
\* shape may come out either way up.
RotateToXZ(pts3) == {QuarterTurn(pts3, sense) : sense \in {1, 0 - 1}}

\* _transform_to_xz(shape): the shape is returned as it is when its normal
\* is along y (line 181); otherwise it is translated in place and a rotated
\* shape is returned.  arg is the argument object after the call, result
\* the object returned.
TransformToXZ(pts3) ==
  IF NormalIsY(pts3) THEN {[arg |-> pts3, result |-> pts3]}
  ELSE LET moved == Translate(pts3)
       IN  {[arg |-> moved, result |-> r] : r \in RotateToXZ(moved)}

\* the working shape of the circuit built from pts3 holds rounded doubles:
\* line 181 did not return the shape as given
Rounded(pts3) == ~NormalIsY(pts3)

\* The caller assembles the input: one more vertex in the x-z plane, joined
\* to the last one by a compass edge.
ExtendShape ==
  /\ pc = "input"
  /\ Len(shape) < MaxPts
  /\ \E x \in Coord, z \in Coord :
       /\ CompassEdge(Sub2(<<x, z>>, XZ(shape)[Len(shape)]))
       /\ shape' = Append(shape, <<x, 0, z>>)
  /\ UNCHANGED <<not_circuit_vars, circuit_args, source_class, pc, t_shape, clockwise, betas, alphas, calls,
                 acute_warnings, self_shape, self_d_l, self_midpoints,
                 deg_betas, deg_alphas, sources, warning_called,
                 endcap_warnings>>

\* The constructor is called with the assembled shape, with that shape made
\* non-planar by displacing its last point, or with that shape laid in the
\* plane z = 0.
CallConstructor ==
  /\ pc = "input"
  /\ Len(shape) >= 3
  /\ \E sh \in {shape, DisplaceLast(shape), LayFlat(shape)} :
       /\ NormalIsY(sh) \/ ~IsPlanar(sh) \/ sh = LayFlat(shape)
       /\ shape' = sh
       /\ shape_before' = sh
  /\ pc' = "start"
  /\ UNCHANGED <<not_circuit_vars, current, xs_args, source_class, t_shape, clockwise, betas, alphas, calls,
                 acute_warnings, self_shape, self_d_l, self_midpoints,
                 deg_betas, deg_alphas, sources, warning_called,
                 endcap_warnings>>

\* PlanarityError with the check left out
PlanarityError_Never(sh) == FALSE

\* lines 124-127: the shape is rejected when it is not planar
PlanarityError(sh) == ~IsPlanar(sh)

\* _process_planar_shape: the planarity check
ProcessPlanarShape ==
  /\ pc = "start"
  /\ pc' = IF PlanarityError(shape) THEN "error" ELSE "angles"
  /\ UNCHANGED <<not_circuit_vars, circuit_args, shape, source_class, t_shape, clockwise, betas, alphas, calls,
                 acute_warnings, self_shape, self_d_l, self_midpoints,
                 deg_betas, deg_alphas, sources, warning_called,
                 endcap_warnings>>

\* number of warnings a call emitted
Warned(call) == IF call.warned THEN 1 ELSE 0

\* _get_betas_alphas, lines 141-152: the working shape, the winding flag and
\* the first entry angle
BetasInit ==
  /\ pc = "angles"
  /\ \E tr \in TransformToXZ(CopyShape(shape).obj) :
     LET copy == CopyShape(shape)
         ts == XZ(tr.result)
         cw == CheckCcw(tr.result, <<0, 1, 0>>)
         mid == Midpoints(ts)
     IN  /\ t_shape' = ts
         /\ clockwise' = cw
         /\ IF Closed(ts)
            THEN /\ \E call \in HalfAngles(mid[Len(mid)], ts[1], mid[1],
                                           cw, ts, Rounded(copy.obj),
                                           <<>>) :
                      calls' = <<call>>
                 /\ betas' = <<calls'[1].angle>>
                 /\ acute_warnings' = Warned(calls'[1])
            ELSE /\ betas' = <<0>>
                 /\ calls' = <<>>
                 /\ acute_warnings' = 0
         /\ shape' = IF copy.alias THEN tr.arg ELSE shape
  /\ alphas' = <<>>
  /\ pc' = "alphas"
  /\ UNCHANGED <<not_circuit_vars, circuit_args, source_class, self_shape, self_d_l, self_midpoints,
                 deg_betas, deg_alphas, sources, warning_called,
                 endcap_warnings>>

\* AlphaArgs with the cyclic wraparound of a closed shape forgotten
AlphaArgs_NoWrap(ts, i) ==
  LET mid == Midpoints(ts)
      n == Len(mid)
  IN  IF i # n THEN <<mid[i], ts[i + 1], mid[i + 1]>> ELSE <<>>

\* AlphaArgs with every shape treated as cyclic
AlphaArgs_AlwaysWrap(ts, i) ==
  LET mid == Midpoints(ts)
      n == Len(mid)
  IN  IF i # n THEN <<mid[i], ts[i + 1], mid[i + 1]>>
      ELSE <<mid[i], ts[Len(ts)], mid[1]>>

\* the arguments of the half-angle call of loop iteration i (1-based), lines
\* 155-160; <<>> when the iteration makes no call (line 162)
AlphaArgs(ts, i) ==
  LET mid == Midpoints(ts)
      n == Len(mid)
  IN  IF i # n THEN <<mid[i], ts[i + 1], mid[i + 1]>>
      ELSE IF Closed(ts) THEN <<mid[i], ts[Len(ts)], mid[1]>>
      ELSE <<>>

\* _get_betas_alphas, lines 154-165: one iteration of the loop over midpoints
AlphaStep ==
  /\ pc = "alphas"
  /\ Len(alphas) < Len(t_shape) - 1
  /\ LET i == Len(alphas) + 1
         args == AlphaArgs(t_shape, i)
     IN  IF args # <<>>
         THEN /\ \E call \in HalfAngles(args[1], args[2], args[3],
                                        clockwise, t_shape, Rounded(shape),
                                        calls) :
                   calls' = Append(calls, call)
              /\ alphas' = Append(alphas, calls'[Len(calls')].angle)
              /\ betas' = Append(betas, calls'[Len(calls')].angle)
              /\ acute_warnings' =
                   acute_warnings + Warned(calls'[Len(calls')])
         ELSE /\ alphas' = Append(alphas, 0)
              /\ betas' = Append(betas, 0)
              /\ UNCHANGED <<calls, acute_warnings>>
  /\ UNCHANGED <<not_circuit_vars, circuit_args, shape, source_class, pc, t_shape, clockwise, self_shape,
                 self_d_l, self_midpoints, deg_betas, deg_alphas, sources,
                 warning_called, endcap_warnings>>

\* line 167 and _generate_sources lines 57-66: the angles are returned in
\* degrees and the bookkeeping of the circuit is set
ReturnAngles ==
  /\ pc = "alphas"
  /\ Len(alphas) = Len(t_shape) - 1
  /\ deg_betas' = Rad2Deg(betas)
  /\ deg_alphas' = Rad2Deg(alphas)
  /\ self_shape' = shape
  /\ self_d_l' = Diff(shape)
  /\ self_midpoints' = Midpoints(shape)
  /\ \E a \in CircuitArgs :
       /\ source_class' = a.class
       /\ current' = a.current
       /\ xs_args' = a.xs
  /\ source_class' \in SourceClasses
  /\ sources' = <<>>
  /\ warning_called' = FALSE
  /\ pc' = "sources"
  /\ UNCHANGED <<not_circuit_vars, shape_before, shape, t_shape, clockwise, betas, alphas, calls,
                 acute_warnings, endcap_warnings>>

\* PolyhedralPrismCurrentSource._warning with bypass_endcap_error=True: the
\* source reports unequal end-cap angles
EndcapUnequal(alpha, beta) == alpha # beta

\* MakeSource reading the entry angle one place further on
MakeSource_ShiftedBeta(j) ==
  [class |-> source_class,
   midpoint |-> self_midpoints[j],
   d_l |-> self_d_l[j],
   xs |-> xs_args,
   beta |-> deg_betas[j + 1],
   alpha |-> deg_alphas[j],
   current |-> current,
   warning |-> source_class = "Polyhedral"
               /\ EndcapUnequal(deg_alphas[j], deg_betas[j + 1])]

\* the source built by loop iteration j of lines 67-104
MakeSource(j) ==
  [class |-> source_class,
   midpoint |-> self_midpoints[j],
   d_l |-> self_d_l[j],
   xs |-> xs_args,
   beta |-> deg_betas[j],
   alpha |-> deg_alphas[j],
   current |-> current,
   warning |-> source_class = "Polyhedral"
               /\ EndcapUnequal(deg_alphas[j], deg_betas[j])]

\* zip(midpoints, d_l, betas, alphas, strict=False): the shortest length
ZipLen == Min(Min(Len(self_midpoints), Len(self_d_l)),
              Min(Len(deg_betas), Len(deg_alphas)))

\* EmitEndcapWarning without the warning_called guard
EmitEndcapWarning_Unguarded(src) == src.warning = TRUE

\* lines 86-92: the unequal end-cap warning, guarded by warning_called
EmitEndcapWarning(src) == warning_called = FALSE /\ src.warning = TRUE

\* _generate_sources, lines 67-104: one iteration of the loop over segments
SourceStep ==
  /\ pc = "sources"
  /\ Len(sources) < ZipLen
  /\ LET src == MakeSource(Len(sources) + 1)
     IN  /\ sources' = Append(sources, src)
         /\ IF source_class = "Polyhedral" /\ EmitEndcapWarning(src)
            THEN /\ endcap_warnings' = endcap_warnings + 1
                 /\ warning_called' = TRUE
            ELSE UNCHANGED <<endcap_warnings, warning_called>>
  /\ UNCHANGED <<not_circuit_vars, circuit_args, shape, source_class, pc, t_shape, clockwise, betas, alphas,
                 calls, acute_warnings, self_shape, self_d_l, self_midpoints,
                 deg_betas, deg_alphas>>

\* line 105 and the constructor's super().__init__(sources)
FinishCircuit ==
  /\ pc = "sources"
  /\ Len(sources) = ZipLen
  /\ pc' = "done"
  /\ UNCHANGED <<not_circuit_vars, circuit_args, shape, source_class, t_shape, clockwise, betas, alphas, calls,
                 acute_warnings, self_shape, self_d_l, self_midpoints,
                 deg_betas, deg_alphas, sources, warning_called,
                 endcap_warnings>>

CircuitNext ==
  \/ ExtendShape
  \/ CallConstructor
  \/ ProcessPlanarShape
  \/ BetasInit
  \/ AlphaStep
  \/ ReturnAngles
  \/ SourceStep
  \/ FinishCircuit

(***************************************************************************)
(* Properties of PlanarCircuit construction (checked under CircuitSpec)    *)
(***************************************************************************)
AnglesReturned == pc \in {"sources", "done"}

NumSegments == Len(shape) - 1

\* C1: for a closed shape the returned half-angles are continuous round the
\* loop: the exit angle alpha[i] of every segment but the last equals the
\* entry angle beta[i+1] of the next one, and the entry angle beta[0] of the
\* first segment equals the exit angle alpha[last] of the last one.
C1_ClosedAngleContinuity ==
  (AnglesReturned /\ Closed(shape)) =>
    /\ Len(deg_alphas) = NumSegments
    /\ \A i \in 1..(NumSegments - 1) : deg_alphas[i] = deg_betas[i + 1]
    /\ deg_betas[1] = deg_alphas[NumSegments]

\* a closed shape whose corners do not all have the same half-angle has been
\* processed, and its first entry angle is not zero
C1_Witness ==
  /\ pc = "done"
  /\ Closed(shape)
  /\ deg_betas[1] # 0
  /\ \E i \in 1..NumSegments : deg_alphas[i] # deg_betas[1]

\* C2: for an open shape the entry half-angle of the first segment and the
\* exit half-angle of the last segment are exactly zero, and the half-angle
\* computation is called for the interior vertices only, once each, in
\* order: never for the two ends.
C2_OpenEndsZero ==
  (AnglesReturned /\ ~Closed(shape)) =>
    /\ deg_betas[1] = 0
    /\ deg_alphas[NumSegments] = 0
    /\ Len(calls) = NumSegments - 1
    /\ \A k \in 1..Len(calls) : calls[k].p1 = t_shape[k + 1]

\* an open shape has been processed whose ends would not have a zero
\* half-angle were the shape read as cyclic, and whose interior angles are
\* not zero
C2_Witness ==
  /\ pc = "done"
  /\ ~Closed(shape)
  /\ NumSegments >= 3
  /\ \A k \in 1..Len(calls) : calls[k].angle # 0
  /\ LET mid == Midpoints(t_shape)
     IN  /\ \A c \in HalfAngles(mid[NumSegments], t_shape[1], mid[1],
                                clockwise, t_shape, Rounded(shape), <<>>) :
               c.angle # 0
         /\ \A c \in HalfAngles(mid[NumSegments], t_shape[Len(t_shape)],
                                mid[1], clockwise, t_shape, Rounded(shape),
                                <<>>) :
               c.angle # 0

\* the projected point of a logged call lies inside the footprint of the
\* working shape (the polygon read in its own order)
InsideFootprint(call) ==
  call.proj[3] # 0
  /\ InPolygon(call.proj[1], call.proj[2], call.proj[3], t_shape)

\* the exact projected point of a logged call lies on the boundary of the
\* footprint, where the rounding of the computed point decides the test
OnFootprintBoundary(call) ==
  call.proj[3] # 0
  /\ OnPolygonBoundary(call.proj[1], call.proj[2], call.proj[3], t_shape)

\* twice the signed area of the polygon through pts (shoelace, cyclic),
\* positive when the points run counter-clockwise in the x-z drawing
\* (x to the right, z upwards)
RECURSIVE ShoelaceFrom(_, _)
ShoelaceFrom(pts, i) ==
  IF i > Len(pts) THEN 0
  ELSE LET a == pts[i]
           b == pts[(i % Len(pts)) + 1]
       IN  Cross2(a, b) + ShoelaceFrom(pts, i + 1)

SignedArea2(pts) == ShoelaceFrom(pts, 1)

\* the working shape is wound clockwise in the x-z drawing (x to the right,
\* z upwards): the shoelace sum of its x and z coordinates is negative
WoundClockwise == SignedArea2(t_shape) < 0

\* C3: at a non-degenerate vertex the half-angle returned follows the truth
\* table over (wound clockwise, projected vertex inside the footprint):
\* (ccw, inside) +u, (ccw, outside) -u, (cw, inside) -u, (cw, outside) +u,
\* with the same unsigned magnitude u in all four rows, and the flag used
\* (the answer of check_ccw about the axis (0, 1, 0), line 144) is true
\* exactly when the shape is wound clockwise in the x-z drawing.  Inside is
\* whether the exact projected point is inside the footprint when it is off
\* its boundary; when it is on the boundary, or when the two midpoints
\* coincide and leave no exact projected point, it is what the
\* point-in-polygon test returned.  (The calls are logged while the angles
\* are computed; the log does not change afterwards.)
C3_SignTruthTable ==
  pc = "alphas" =>
  \A k \in 1..Len(calls) :
    LET c == calls[k]
        u == HalfArccos(Sub2(c.p1, c.p0), Sub2(c.p2, c.p1))
        ins == IF c.proj[3] = 0 \/ OnFootprintBoundary(c) THEN c.inside
               ELSE InsideFootprint(c)
    IN  ~c.degenerate =>
          /\ c.cw = WoundClockwise
          /\ clockwise = WoundClockwise
          /\ (~WoundClockwise /\ ins) => c.angle = u
          /\ (~WoundClockwise /\ ~ins) => c.angle = -u
          /\ (WoundClockwise /\ ins) => c.angle = -u
          /\ (WoundClockwise /\ ~ins) => c.angle = u

\* a clockwise shape with a non-degenerate vertex projecting inside and
\* another projecting outside (the double negation row) has been processed
C3_Witness ==
  /\ pc = "done"
  /\ WoundClockwise
  /\ \E j, k \in 1..Len(calls) :
       /\ ~calls[j].degenerate /\ InsideFootprint(calls[j])
       /\ calls[j].angle < 0
       /\ ~calls[k].degenerate /\ ~InsideFootprint(calls[k])
       /\ calls[k].angle > 0

\* the counter-clockwise rows of the table are reached as well
C3_WitnessCcw ==
  /\ pc = "done"
  /\ ~WoundClockwise
  /\ \E j, k \in 1..Len(calls) :
       /\ ~calls[j].degenerate /\ InsideFootprint(calls[j])
       /\ calls[j].angle > 0
       /\ ~calls[k].degenerate /\ ~InsideFootprint(calls[k])
       /\ calls[k].angle < 0

\* C4: a shape that is not planar is rejected by the planarity check, before
\* any half-angle is computed and before any source is made: the
\* construction ends in the error with no call logged, no warning, no
\* angles, no sources and no bookkeeping (shape, d_l, midpoints) set; and
\* the construction of a non-planar shape never gets further than that.
C4_NonPlanarRejectedFirst ==
  /\ pc = "error" =>
       /\ ~IsPlanar(shape)
       /\ calls = <<>> /\ acute_warnings = 0
       /\ betas = <<>> /\ alphas = <<>>
       /\ deg_betas = <<>> /\ deg_alphas = <<>>
       /\ sources = <<>> /\ endcap_warnings = 0
       /\ self_shape = <<>> /\ self_d_l = <<>> /\ self_midpoints = <<>>
  /\ (~IsPlanar(shape) /\ pc \notin {"input", "start"}) => pc = "error"

\* the construction of a shape of four points or more, the last displaced
\* out of the plane of the others, has ended in the error
C4_Witness ==
  /\ pc = "error"
  /\ Len(shape) >= 4
  /\ shape[Len(shape)][2] = 1
  /\ \A i \in 1..(Len(shape) - 1) : shape[i][2] = 0

\* C10 (as claimed): during one construction at most one acute-angle warning
\* and at most one unequal end-cap warning are emitted.
C10_AtMostOneWarningPerKind ==
  acute_warnings <= 1 /\ endcap_warnings <= 1

\* the sources generated so far that report unequal end-cap angles
Reporting == {j \in 1..Len(sources) : sources[j].warning}

\* C11: while a polyhedral circuit is built, the unequal end-cap warning has
\* been emitted exactly once as soon as one of the sources generated so far
\* reports unequal end-cap angles, and not at all before that, however many
\* sources report it and wherever the first of them stands; a trapezoidal
\* circuit never emits it; and when the construction ends a source has been
\* created for every segment.
C11_EndcapWarningOnce ==
  /\ (pc \in {"sources", "done"} /\ source_class = "Polyhedral") =>
       /\ endcap_warnings = (IF Reporting # {} THEN 1 ELSE 0)
       /\ warning_called = (Reporting # {})
  /\ (pc \in {"sources", "done"} /\ source_class = "Trapezoidal") =>
       endcap_warnings = 0
  /\ pc = "done" => Len(sources) = NumSegments

\* a polyhedral circuit has been built in which two sources or more report
\* unequal end-cap angles, the first of them not being the first source
C11_Witness ==
  /\ pc = "done"
  /\ source_class = "Polyhedral"
  /\ Cardinality(Reporting) >= 2
  /\ 1 \notin Reporting
  /\ endcap_warnings = 1

\* the half-angles at vertex v (1-based) of the working shape, in
\* half-degrees, that a call with the vertex and the midpoints of the two
\* segments that meet there may return after the calls logged
VertexAngles(v) ==
  LET mid == Midpoints(t_shape)
      n == Len(mid)
      before == IF v = 1 THEN mid[n] ELSE mid[v - 1]
      after == IF v = n + 1 THEN mid[1] ELSE mid[v]
  IN  {45 * c.angle :
         c \in HalfAngles(before, t_shape[v], after, clockwise, t_shape,
                          Rounded(shape), calls)}

\* C12: the finished circuit holds exactly one source per segment of the
\* boundary, in boundary order (a closed shape of N distinct corners, given
\* as N + 1 points, has N segments and N sources); source i is built from
\* the midpoint and the direction vector of segment i, from the entry
\* half-angle beta[i] (the half-angle at the vertex where segment i starts)
\* and the exit half-angle alpha[i] (at the vertex where it ends); and all
\* sources carry the current and the cross-section given to the constructor.
C12_OneSourcePerSegment ==
  pc = "done" =>
    /\ Len(sources) = NumSegments
    /\ \A i \in 1..NumSegments :
         /\ sources[i].midpoint = Midpoints(shape)[i]
         /\ sources[i].d_l = Sub3(shape[i + 1], shape[i])
         /\ sources[i].beta = deg_betas[i]
         /\ sources[i].alpha = deg_alphas[i]
         /\ sources[i].current = current
         /\ sources[i].xs = xs_args
         /\ sources[i].class = source_class
         /\ Closed(shape) =>
              /\ VertexAngles(i) = {sources[i].beta}
              /\ VertexAngles(i + 1) = {sources[i].alpha}
         /\ (~Closed(shape) /\ i > 1) => VertexAngles(i) = {sources[i].beta}
         /\ (~Closed(shape) /\ i < NumSegments) =>
              VertexAngles(i + 1) = {sources[i].alpha}

\* a closed circuit of four segments whose half-angles are not all the same
\* has been built
C12_Witness ==
  /\ pc = "done"
  /\ Closed(shape)
  /\ Len(sources) = 4
  /\ \E i, j \in 1..4 : sources[i].beta # sources[j].beta
  /\ \E i \in 1..4 : sources[i].beta # sources[i].alpha

\* the incoming and the outgoing direction of a logged call are equal
StraightOn(call) ==
  LET v1 == Sub2(call.p1, call.p0)
      v2 == Sub2(call.p2, call.p1)
  IN  Cross2(v1, v2) = 0 /\ Dot2(v1, v2) > 0

\* the working shape is a straight open path: every segment points the way
\* the first one does
StraightPath ==
  /\ ~Closed(t_shape)
  /\ \A i \in 1..(Len(t_shape) - 1) :
       LET v == Sub2(t_shape[i + 1], t_shape[i])
           w == Sub2(t_shape[2], t_shape[1])
       IN  Cross2(v, w) = 0 /\ Dot2(v, w) > 0

\* C13: whenever the incoming and the outgoing unit direction at a vertex
\* are equal the half-angle returned is exactly 0, through the first return
\* (before the projection, with no sign flip) and without a warning; hence
\* for a straight open path every entry and exit half-angle of every segment
\* is 0 and no warning is emitted.
C13_StraightIsZero ==
  /\ \A k \in 1..Len(calls) :
       StraightOn(calls[k]) =>
         /\ calls[k].angle = 0
         /\ calls[k].exit = "same_direction"
         /\ ~calls[k].warned
  /\ (AnglesReturned /\ StraightPath) =>
       /\ \A i \in 1..Len(deg_betas) : deg_betas[i] = 0
       /\ \A i \in 1..Len(deg_alphas) : deg_alphas[i] = 0
       /\ acute_warnings = 0

\* a straight open path of two segments has been processed, with one call of
\* the half-angle computation, at its middle vertex
C13_Witness ==
  /\ pc = "done"
  /\ StraightPath
  /\ NumSegments = 2
  /\ Len(calls) = 1
  /\ StraightOn(calls[1])
  /\ calls[1].unsigned = 0

\* the vertex of a logged call has no perpendicular offset from the chord
\* between the two midpoints: the three points are collinear
OnChord(call) ==
  Cross2(Sub2(call.p1, call.p0), Sub2(call.p2, call.p0)) = 0

\* C14 (as claimed): whenever the vertex has no perpendicular offset from
\* the chord between the two adjacent midpoints, the half-angle returned is
\* 0 and the point-in-polygon test is not consulted, the vertex where the
\* path reverses included.
C14_OnChordIsZero ==
  \A k \in 1..Len(calls) :
    OnChord(calls[k]) => (calls[k].angle = 0 /\ calls[k].exit # "signed")

\* C18: constructing a circuit does not modify the caller's shape: from the
\* call of the constructor on, through the planarity check, the transform
\* into the x-z working plane (translation to the centre of mass and
\* rotation, or neither), the half-angles and the sources, the coordinates
\* of the shape passed in are those it had when the constructor was called,
\* whatever its orientation.
C18_CallerShapeUntouched ==
  pc \in {"start", "angles", "alphas", "sources", "done", "error"} =>
    shape = shape_before

\* a circuit has been built from a closed shape that does not lie in a plane
\* y = const: its working copy was translated and rotated
C18_Witness ==
  /\ pc = "done"
  /\ ~NormalIsY(shape)
  /\ Closed(shape)
  /\ t_shape # XZ(shape)
  /\ t_shape \in {XZ(r) : r \in RotateToXZ(Translate(shape))}
  /\ Len(sources) = NumSegments

\* the half-angle a logged call computed is strictly more than 45 degrees
\* in magnitude (angles in half-degrees): more than 45 degrees exactly, or
\* 45 degrees exactly with the computed double above it by rounding
ComputedOver45(call) ==
  \/ Abs(45 * call.angle) > 90
  \/ Abs(45 * call.angle) = 90 /\ call.excess

\* the logged calls that computed a half-angle of more than 45 degrees in
\* magnitude
OverFortyFive == {k \in 1..Len(calls) : ComputedOver45(calls[k])}

\* the exit angle of segment i as the loop of _get_betas_alphas logged it:
\* a closed shape makes one call more, for the first entry angle, and an
\* open shape makes none for its last segment
LoggedAlpha(i) ==
  IF Closed(t_shape) THEN calls[i + 1].angle
  ELSE IF i < Len(t_shape) - 1 THEN calls[i].angle
  ELSE 0

\* C25: the acute-angle warning is emitted by a call of _get_half_angle if
\* and only if the half-angle it computed is strictly more than 45 degrees
\* in magnitude, once per such call (a corner of exactly 45 degrees warns
\* only where the working shape holds rounded doubles and the computed
\* value came out above 45 degrees); the warning is not fatal: the call
\* returns the unsigned half-angle with the sign of the truth table, as a
\* call that does not warn does, the angles of the other vertices are the
\* ones their calls returned, and the finished circuit has a source per
\* segment built from these angles.
C25_AcuteWarningNonFatal ==
  /\ \A k \in 1..Len(calls) :
       /\ calls[k].warned <=> k \in OverFortyFive
       /\ calls[k].excess => Rounded(shape)
       /\ calls[k].exit = "signed" =>
            calls[k].angle =
              (IF calls[k].inside # calls[k].cw
               THEN calls[k].unsigned ELSE -calls[k].unsigned)
  /\ acute_warnings = Cardinality(OverFortyFive)
  /\ pc = "alphas" =>
       \A i \in 1..Len(alphas) :
         /\ alphas[i] = LoggedAlpha(i)
         /\ betas[i + 1] = LoggedAlpha(i)
  /\ AnglesReturned =>
       \A i \in 1..Len(deg_alphas) : deg_alphas[i] = 45 * LoggedAlpha(i)
  /\ pc = "done" =>
       /\ Len(sources) = NumSegments
       /\ \A i \in 1..NumSegments :
            /\ sources[i].alpha = deg_alphas[i]
            /\ sources[i].beta = deg_betas[i]

\* a closed circuit has been built from a shape of whole coordinates in a
\* plane y = const, in which one call warned, returning a half-angle of
\* 67.5 degrees in magnitude, and another returned exactly 45 degrees in
\* magnitude without warning
C25_Witness ==
  /\ pc = "done"
  /\ Closed(shape)
  /\ ~Rounded(shape)
  /\ Len(sources) = NumSegments
  /\ \E k, l \in 1..Len(calls) :
       /\ calls[k].warned
       /\ Abs(calls[k].angle) = 3
       /\ ~calls[l].warned
       /\ Abs(calls[l].angle) = 2
  /\ acute_warnings >= 1

\* a circuit has been built from a shape laid in the plane z = 0, in which a
\* right-angle corner computed above 45 degrees warned and the sources were
\* made all the same
C25_WitnessRounded ==
  /\ pc = "done"
  /\ Rounded(shape)
  /\ Len(sources) = NumSegments
  /\ \E k, l \in 1..Len(calls) :
       /\ calls[k].warned /\ calls[k].excess /\ Abs(calls[k].angle) = 2
       /\ ~calls[l].warned /\ Abs(calls[l].angle) = 2

\* an open circuit has been built in which a call warned
C25_WitnessOpen ==
  /\ pc = "done"
  /\ ~Closed(shape)
  /\ \E k \in 1..Len(calls) : calls[k].warned
  /\ Len(sources) = NumSegments

(***************************************************************************)
(* Fractions (angles in degrees, the ripple)                               *)
(***************************************************************************)
RECURSIVE GCD(_, _)
GCD(a, b) == IF b = 0 THEN a ELSE GCD(b, a % b)

\* the fraction n/d, d > 0, in lowest terms
Rat(n, d) ==
  LET g == GCD(Abs(n), d)
  IN  [num |-> n \div g, den |-> d \div g]

RatAdd(a, b) == Rat(a.num * b.den + b.num * a.den, a.den * b.den)

RatSub(a, b) == Rat(a.num * b.den - b.num * a.den, a.den * b.den)

RatLess(a, b) == a.num * b.den < b.num * a.den

\* the angle between two azimuthal half-planes, in [0, 180] degrees
CyclicDist(a, b) ==
  LET d == RatSub(a, b)
      m == Rat(d.num % (360 * d.den), d.den)
      r == RatSub(Rat(360, 1), m)
  IN  IF RatLess(r, m) THEN r ELSE m

(***************************************************************************)
(* The current-source capability consumed by the cage                      *)
(***************************************************************************)
\* the template circuit is object 1 of the heap
Template == 1

\* DeepCopy handing back the object itself
DeepCopy_SameObject(heap, id) == [heap |-> heap, id |-> id]

\* CurrentSource.copy(): a deep copy, a fresh object with the same placement
DeepCopy(heap, id) ==
  [heap |-> Append(heap, heap[id]), id |-> Len(heap) + 1]

\* CurrentSource.rotate(angle, axis="z"): the object is rotated in place
Rotate(heap, id, angle) == [heap EXCEPT ![id] = RatAdd(@, angle)]

\* the toroidal field of one primitive source of the circuit placed at angle
\* a, in the plane at phi; prof is the field profile of that source
SourceField(prof, a, phi) ==
  LET d == CyclicDist(phi, a)
  IN  IF d.num = 0 THEN prof[1]
      ELSE IF RatLess(d, Rat(90, 1)) THEN prof[2]
      ELSE prof[3]

\* SourceGroup.field: the sum of the contributions of the children
RECURSIVE SumFields(_)
SumFields(fs) == IF fs = <<>> THEN 0 ELSE Head(fs) + SumFields(Tail(fs))

\* the field of a circuit (a group of primitive sources with the profiles
\* profs) placed at angle a, in the plane at phi
CircuitField(profs, a, phi) ==
  SumFields([c \in 1..Len(profs) |-> SourceField(profs[c], a, phi)])

\* the field of the cage: the group of the circuits ids of the heap
GroupField(profs, heap, ids, phi) ==
  SumFields([k \in 1..Len(ids) |-> CircuitField(profs, heap[ids[k]], phi)])

\* SourceGroup.__init__(sources): a group cannot be made of no sources
GroupInitFails(ids) == ids = <<>>

(***************************************************************************)
(* HelmholtzCage                                                           *)
(***************************************************************************)
\* largest replica count given to the constructor
MaxTF == 4

\* largest number of rotations applied to the objects after construction
MaxRotations == 1

\* field profiles of a primitive source
Profiles == {<<3, 1, 0>>, <<2, 2, 1>>, <<3, -1, 0>>, <<-2, 1, 1>>}

\* the template circuit: a group of one or two primitive sources
TemplateProfiles ==
  {<<q>> : q \in Profiles} \cup {<<q, r>> : q \in Profiles, r \in Profiles}

\* the counts given to the constructor, doubled: -1, -1/2, 0, 1/2, 1, ...
Counts2 == (0 - 2)..(2 * MaxTF + 1)

\* int(self.n_TF): truncation towards zero
IntTF(n2) == IF n2 >= 0 THEN n2 \div 2 ELSE -((-n2) \div 2)

\* the count is a positive integer
IsPositiveInteger(n2) == n2 % 2 = 0 /\ n2 >= 2

\* np.linspace with the end point included
Linspace_WithEndpoint(n) ==
  [k \in 1..n |-> IF n = 1 THEN Rat(0, 1) ELSE Rat(360 * (k - 1), n - 1)]

\* np.linspace(0, 360, n, endpoint=False), n >= 0
Linspace(n) == [k \in 1..n |-> Rat(360 * (k - 1), n)]

CageInit ==
  /\ n_TF2 = 0 - 1
  /\ objs = <<Rat(0, 1)>>
  /\ cage_pc = "new"
  /\ angles = <<>>
  /\ cage_sources = <<>>
  /\ rotations = 0
  /\ profile \in TemplateProfiles
  /\ ripple_planes = <<>>
  /\ ripple_field = <<>>
  /\ ripple_value = <<>>
  /\ CircuitIdle
  /\ OptIdle
  /\ NormIdle
  /\ BuilderIdle
  /\ MeshIdle

\* __init__, line 339, and the np.linspace call of line 354 (which raises
\* for a negative number of samples)
CageConstruct ==
  /\ cage_pc = "new"
  /\ \E n2 \in Counts2 :
       /\ n_TF2' = n2
       /\ IF IntTF(n2) < 0
          THEN /\ cage_pc' = "error"
               /\ angles' = <<>>
          ELSE /\ cage_pc' = "pattern"
               /\ angles' = Linspace(IntTF(n2))
  /\ cage_sources' = <<>>
  /\ UNCHANGED <<not_cage_vars, objs, rotations, profile, ripple_planes, ripple_field,
                 ripple_value>>

\* line 355: source = circuit.copy()
PatternSource(heap, circuit) == DeepCopy(heap, circuit)

\* _pattern, lines 354-357: one iteration of the loop over the angles
PatternStep ==
  /\ cage_pc = "pattern"
  /\ Len(cage_sources) < Len(angles)
  /\ LET angle == angles[Len(cage_sources) + 1]
         copied == PatternSource(objs, Template)
     IN  /\ objs' = Rotate(copied.heap, copied.id, angle)
         /\ cage_sources' = Append(cage_sources, copied.id)
  /\ UNCHANGED <<not_cage_vars, n_TF2, cage_pc, angles, rotations, profile, ripple_planes,
                 ripple_field, ripple_value>>

\* line 358 and line 342: super().__init__(sources)
CageFinish ==
  /\ cage_pc = "pattern"
  /\ Len(cage_sources) = Len(angles)
  /\ cage_pc' = IF GroupInitFails(cage_sources) THEN "error" ELSE "done"
  /\ UNCHANGED <<not_cage_vars, n_TF2, objs, angles, cage_sources, rotations, profile,
                 ripple_planes, ripple_field, ripple_value>>

\* the angles of the rotations applied after construction, degrees
RotationAngles == {Rat(90, 1), Rat(0 - 120, 1)}

\* The caller rotates one circuit (the template or a replica) about the
\* z-axis after the cage has been built.
RotateObject ==
  /\ cage_pc = "done"
  /\ rotations < MaxRotations
  /\ \E id \in 1..Len(objs), angle \in RotationAngles :
       objs' = Rotate(objs, id, angle)
  /\ rotations' = rotations + 1
  /\ UNCHANGED <<not_cage_vars, n_TF2, cage_pc, angles, cage_sources, profile, ripple_planes,
                 ripple_field, ripple_value>>

\* RipplePlanes a full pitch apart
RipplePlanes_FullPitch(n2) == <<Rat(0, 1), Rat(720, n2)>>

\* line 387: planes = [0, np.pi / self.n_TF], in degrees (180 / n_TF)
RipplePlanes(n2) == <<Rat(0, 1), Rat(360, n2)>>

\* line 396: 1e2 * (ripple_field[0] - ripple_field[1]) / np.sum(ripple_field)
RippleValue(rf) == [num |-> 100 * (rf[1] - rf[2]), den |-> rf[1] + rf[2]]

\* ripple(x, 0, z) for a point of the plane y = 0: lines 384-396
Ripple ==
  /\ cage_pc = "done"
  /\ LET planes == RipplePlanes(n_TF2)
         rf == [i \in 1..2 |-> GroupField(profile, objs, cage_sources, planes[i])]
     IN  /\ ripple_planes' = planes
         /\ ripple_field' = rf
         /\ ripple_value' = RippleValue(rf)
  /\ UNCHANGED <<not_cage_vars, n_TF2, objs, cage_pc, angles, cage_sources, rotations,
                 profile>>

CageNext ==
  \/ CageConstruct
  \/ PatternStep
  \/ CageFinish
  \/ RotateObject
  \/ Ripple

(***************************************************************************)
(* Properties of HelmholtzCage (checked under CageSpec)                    *)
(***************************************************************************)
\* the cage as constructed: built, and nothing rotated since
AsBuilt == cage_pc = "done" /\ rotations = 0

\* the replica count, when the count given is an integer
ReplicaCount == n_TF2 \div 2

\* the placement of replica k (0-based)
Replica(k) == objs[cage_sources[k + 1]]

\* the placement of the template when the cage was constructed
TemplatePlacement == Rat(0, 1)

\* C5: for every replica count N >= 1 the cage holds exactly N replicas,
\* replica k (k = 0..N-1) is the template rotated by k*360/N degrees, the
\* angles are distinct and lie in [0, 360), and for N = 1 the single replica
\* is placed as the template.
C5_ReplicasEvenlySpaced ==
  (AsBuilt /\ IsPositiveInteger(n_TF2)) =>
    LET N == ReplicaCount
    IN  /\ Len(cage_sources) = N
        /\ \A k \in 0..(N - 1) :
             /\ Replica(k) = RatAdd(TemplatePlacement, Rat(360 * k, N))
             /\ angles[k + 1] = Rat(360 * k, N)
             /\ ~RatLess(angles[k + 1], Rat(0, 1))
             /\ RatLess(angles[k + 1], Rat(360, 1))
        /\ \A j, k \in 0..(N - 1) : j # k => angles[j + 1] # angles[k + 1]
        /\ N = 1 => Replica(0) = TemplatePlacement

\* a cage of three replicas or more has been built
C5_Witness ==
  /\ AsBuilt
  /\ IsPositiveInteger(n_TF2)
  /\ ReplicaCount >= 3
  /\ Len(cage_sources) = ReplicaCount

\* the objects of the heap whose placement a step changes
Changed == {o \in 1..Len(objs) : objs'[o] # objs[o]}

\* C6: building the cage never changes the template, and no two replicas
\* share placement state: the replicas are objects of their own, distinct
\* from one another and from the template; a patterning step changes no
\* object that existed before it, so the template is placed after
\* construction as it was before; and a later rotation of one object changes
\* that object only.
C6_NoAliasing ==
  /\ [](/\ \A j \in 1..Len(cage_sources) : cage_sources[j] # Template
        /\ \A j, k \in 1..Len(cage_sources) :
             j # k => cage_sources[j] # cage_sources[k]
        /\ rotations = 0 => objs[Template] = TemplatePlacement)
  /\ [][/\ cage_pc = "pattern" => Changed = {}
        /\ cage_pc = "done" => Cardinality(Changed) <= 1]_vars

\* a cage of two replicas or more has been built and one of its replicas
\* rotated afterwards: the template is where it was, and so is a sibling
C6_Witness ==
  /\ cage_pc = "done"
  /\ Len(cage_sources) >= 2
  /\ rotations = 1
  /\ objs[Template] = TemplatePlacement
  /\ \E j, k \in 1..Len(cage_sources) :
       /\ objs[cage_sources[j]] = RatAdd(angles[j], Rat(90, 1))
       /\ j # k
       /\ objs[cage_sources[k]] = angles[k]

\* C7 (as claimed): the plane at 0 degrees lies midway between two adjacent
\* replicas: replica 0 is offset from the template's plane by half the
\* angular pitch, 180/N degrees, and no replica lies in the 0 degree plane.
C7_ZeroPlaneBetweenReplicas ==
  (AsBuilt /\ IsPositiveInteger(n_TF2)) =>
    /\ Replica(0) = RatAdd(TemplatePlacement, Rat(180, ReplicaCount))
    /\ \A k \in 0..(ReplicaCount - 1) :
         CyclicDist(Replica(k), Rat(0, 1)).num # 0

\* C8: ripple evaluates the field in exactly two planes: the first contains
\* a replica (inline), the second lies half the angular pitch, 180/N
\* degrees, from it, equidistant from two adjacent replicas (in-gap); the
\* value returned is 100 * (inline - ingap) / (inline + ingap), the inline
\* field first.
C8_RippleInlineThenInGap ==
  (AsBuilt /\ IsPositiveInteger(n_TF2) /\ ripple_value # <<>>) =>
    LET N == ReplicaCount
        half == Rat(180, N)
        inline == GroupField(profile, objs, cage_sources, ripple_planes[1])
        ingap == GroupField(profile, objs, cage_sources, ripple_planes[2])
    IN  /\ Len(ripple_planes) = 2
        /\ \E k \in 0..(N - 1) :
             CyclicDist(ripple_planes[1], Replica(k)).num = 0
        /\ RatSub(ripple_planes[2], ripple_planes[1]) = half
        /\ \E k \in 0..(N - 1) :
             /\ CyclicDist(ripple_planes[2], Replica(k)) = half
             /\ CyclicDist(ripple_planes[2], Replica((k + 1) % N)) = half
        /\ \A k \in 0..(N - 1) :
             ~RatLess(CyclicDist(ripple_planes[2], Replica(k)), half)
        /\ ripple_field = <<inline, ingap>>
        /\ ripple_value.num = 100 * (inline - ingap)
        /\ ripple_value.den = inline + ingap

\* the ripple of a cage of three replicas or more has been evaluated, the
\* inline field differing from the in-gap field
C8_Witness ==
  /\ AsBuilt
  /\ IsPositiveInteger(n_TF2)
  /\ ReplicaCount >= 3
  /\ ripple_value # <<>>
  /\ ripple_field[1] # ripple_field[2]
  /\ ripple_value.den # 0

\* C9 (as claimed): a cage is only ever built from a replica count that is
\* a positive integer; the construction with any other count (zero
\* included) ends in an error.
C9_InvalidCountRejected ==
  cage_pc = "done" => IsPositiveInteger(n_TF2)

(***************************************************************************)
(* Optimisation variables (src/bluemira/utilities/opt_variables.py):       *)
(* BoundedVariable and OptVariables.  Values and bounds are whole numbers; *)
(* a normalised value is counted in halves (1 stands for 0.5).             *)
(***************************************************************************)
\* the names of the variables
OptNames == {"a", "b"}

\* the values and bounds given by the caller
OptValues == {0, 2}

\* the entries of a normalised vector, in halves: 0, 0.5, 1, 1.5
NormInputs == 0..3

\* the default None of an optional argument
None == 0 - 1

\* BoundedVariable._validate_bounds raises
BoundsError(lower_bound, upper_bound) == lower_bound > upper_bound

\* BoundedVariable._validate_value raises
ValueError(value, lower_bound, upper_bound) ==
  ~(lower_bound <= value /\ value <= upper_bound)

\* IsFixed with the flag never read
IsFixed_Never(v) == FALSE

\* the test self.fixed of the value setter and of adjust
IsFixed(v) == v.fixed

\* normalise_value(value, lower_bound, upper_bound) as a fraction; <<>> when
\* the two bounds are equal (a division by zero)
NormaliseValue(value, lower_bound, upper_bound) ==
  IF upper_bound = lower_bound THEN <<>>
  ELSE IF upper_bound > lower_bound
       THEN Rat(value - lower_bound, upper_bound - lower_bound)
       ELSE Rat(lower_bound - value, lower_bound - upper_bound)

\* denormalise_value(v_norm, lower_bound, upper_bound), v_norm in halves
\* (exact: the bounds are even)
DenormaliseValue(h, lower_bound, upper_bound) ==
  lower_bound + (h * (upper_bound - lower_bound)) \div 2

\* the value setter on the variable v: the variable afterwards and whether
\* the setter raised
SetValue(v, value) ==
  IF IsFixed(v) THEN [var |-> v, raised |-> TRUE]
  ELSE IF ValueError(value, v.lower_bound, v.upper_bound)
  THEN [var |-> v, raised |-> TRUE]
  ELSE [var |-> [v EXCEPT !.value = value], raised |-> FALSE]

\* BoundedVariable(name, value, lower_bound, upper_bound, fixed)
NewVariable(name, value, lower_bound, upper_bound, fixed) ==
  IF BoundsError(lower_bound, upper_bound)
     \/ ValueError(value, lower_bound, upper_bound)
  THEN [var |-> <<>>, raised |-> TRUE]
  ELSE LET blank == [name |-> name, value |-> None,
                     lower_bound |-> lower_bound, upper_bound |-> upper_bound,
                     fixed |-> FALSE]
           set == SetValue(blank, value)
       IN  [var |-> [set.var EXCEPT !.fixed = fixed], raised |-> set.raised]

\* BoundedVariable.fix(value): ignores the bounds
Fix(v, value) ==
  [v EXCEPT !.fixed = TRUE,
            !.value = IF value # None THEN value ELSE @]

\* adjust with the value set first, against the bounds as they were
Adjust_ValueFirst(v, value, lower_bound, upper_bound) ==
  IF IsFixed(v) THEN [var |-> v, raised |-> TRUE]
  ELSE
    LET set == IF value # None THEN SetValue(v, value)
               ELSE [var |-> v, raised |-> FALSE]
        v1 == [set.var EXCEPT
                 !.lower_bound = IF lower_bound # None THEN lower_bound ELSE @,
                 !.upper_bound = IF upper_bound # None THEN upper_bound ELSE @]
    IN  IF set.raised THEN set
        ELSE [var |-> v1, raised |-> BoundsError(v1.lower_bound, v1.upper_bound)]

\* BoundedVariable.adjust(value, lower_bound, upper_bound): the bounds are
\* written before they are validated, the value is set last
Adjust(v, value, lower_bound, upper_bound) ==
  IF IsFixed(v) THEN [var |-> v, raised |-> TRUE]
  ELSE
    LET v1 == [v EXCEPT
                 !.lower_bound = IF lower_bound # None THEN lower_bound ELSE @,
                 !.upper_bound = IF upper_bound # None THEN upper_bound ELSE @]
    IN  IF BoundsError(v1.lower_bound, v1.upper_bound)
        THEN [var |-> v1, raised |-> TRUE]
        ELSE IF value # None THEN SetValue(v1, value)
        ELSE [var |-> v1, raised |-> FALSE]

\* the position of the variable called name in the dictionary, 0 when absent
IndexOf(dict, name) ==
  IF \E i \in 1..Len(dict) : dict[i].name = name
  THEN CHOOSE i \in 1..Len(dict) : dict[i].name = name
  ELSE 0

\* OptVariables._check_presence raises
Absent(dict, name) == IndexOf(dict, name) = 0

\* OptVariables._opt_vars: the positions of the free variables, in order
OptVars(dict) == SelectSeq([i \in 1..Len(dict) |-> i], LAMBDA i : ~dict[i].fixed)

\* the record of an operation on the variable that was old before it
OpOn(op, name, raised, old) ==
  [op |-> op, name |-> name, raised |-> raised, old |-> old]

\* the record of an operation
Op(op, name, raised) == OpOn(op, name, raised, <<>>)

OptInit ==
  /\ var_dict = <<>>
  /\ last_op = Op("init", "", FALSE)
  /\ CircuitIdle
  /\ CageIdle
  /\ NormIdle
  /\ BuilderIdle
  /\ MeshIdle
\* the optional arguments of adjust and fix
Optional == OptValues \cup {None}

\* add_variable that replaces a variable of the same name
AddVariable_Overwrite ==
  \E name \in OptNames, value \in OptValues, lower_bound \in OptValues,
     upper_bound \in OptValues, fixed \in BOOLEAN :
    LET new == NewVariable(name, value, lower_bound, upper_bound, fixed)
        i == IndexOf(var_dict, name)
    IN  /\ IF new.raised
           THEN /\ var_dict' = var_dict
                /\ last_op' = Op("add_variable", name, TRUE)
           ELSE /\ var_dict' = IF i = 0 THEN Append(var_dict, new.var)
                                ELSE [var_dict EXCEPT ![i] = new.var]
                /\ last_op' = Op("add_variable", name, FALSE)
        /\ UNCHANGED not_opt_vars

\* OptVariables.add_variable(BoundedVariable(...)): the construction may
\* raise, and so may the addition of a name already there
AddVariable ==
  \E name \in OptNames, value \in OptValues, lower_bound \in OptValues,
     upper_bound \in OptValues, fixed \in BOOLEAN :
    LET new == NewVariable(name, value, lower_bound, upper_bound, fixed)
    IN  /\ IF new.raised \/ ~Absent(var_dict, name)
           THEN /\ var_dict' = var_dict
                /\ last_op' = Op("add_variable", name, TRUE)
           ELSE /\ var_dict' = Append(var_dict, new.var)
                /\ last_op' = Op("add_variable", name, FALSE)
        /\ UNCHANGED not_opt_vars

\* OptVariables.remove_variable(name)
RemoveVariable ==
  \E name \in OptNames :
    /\ IF Absent(var_dict, name)
       THEN /\ var_dict' = var_dict
            /\ last_op' = Op("remove_variable", name, TRUE)
       ELSE /\ var_dict' = SelectSeq(var_dict, LAMBDA v : v.name # name)
            /\ last_op' = Op("remove_variable", name, FALSE)
    /\ UNCHANGED not_opt_vars

\* variable.value = value, on a variable of the set
AssignValue ==
  \E name \in OptNames, value \in OptValues :
    /\ ~Absent(var_dict, name)
    /\ LET i == IndexOf(var_dict, name)
           set == SetValue(var_dict[i], value)
       IN  /\ var_dict' = [var_dict EXCEPT ![i] = set.var]
           /\ last_op' = Op("value", name, set.raised)
    /\ UNCHANGED not_opt_vars

\* one call variable.adjust(value, lower_bound, upper_bound), on the
\* variable of the set called name
AdjustDirectCall(name, value, lower_bound, upper_bound) ==
  /\ ~Absent(var_dict, name)
  /\ LET i == IndexOf(var_dict, name)
         adj == Adjust(var_dict[i], value, lower_bound, upper_bound)
     IN  /\ var_dict' = [var_dict EXCEPT ![i] = adj.var]
         /\ last_op' = Op("adjust", name, adj.raised)
  /\ UNCHANGED not_opt_vars

\* variable.adjust with any arguments, on a variable of the set
AdjustDirect ==
  \E name \in OptNames, value \in Optional, lower_bound \in Optional,
     upper_bound \in Optional :
    AdjustDirectCall(name, value, lower_bound, upper_bound)

\* one call OptVariables.adjust_variable(name, value, lower_bound,
\* upper_bound)
AdjustVariableCall(name, value, lower_bound, upper_bound) ==
  /\ IF Absent(var_dict, name)
     THEN /\ var_dict' = var_dict
          /\ last_op' = Op("adjust_variable", name, TRUE)
     ELSE LET i == IndexOf(var_dict, name)
              adj == Adjust(var_dict[i], value, lower_bound, upper_bound)
          IN  /\ var_dict' = [var_dict EXCEPT ![i] = adj.var]
              /\ last_op' = OpOn("adjust_variable", name, adj.raised,
                                 var_dict[i])
  /\ UNCHANGED not_opt_vars

\* OptVariables.adjust_variable with any arguments
AdjustVariable ==
  \E name \in OptNames, value \in Optional, lower_bound \in Optional,
     upper_bound \in Optional :
    AdjustVariableCall(name, value, lower_bound, upper_bound)

\* OptVariables.fix_variable(name, value)
FixVariable ==
  \E name \in OptNames, value \in Optional :
    /\ IF Absent(var_dict, name)
       THEN /\ var_dict' = var_dict
            /\ last_op' = Op("fix_variable", name, TRUE)
       ELSE LET i == IndexOf(var_dict, name)
            IN  /\ var_dict' = [var_dict EXCEPT ![i] = Fix(@, value)]
                /\ last_op' = Op("fix_variable", name, FALSE)
    /\ UNCHANGED not_opt_vars

\* the loop of set_values_from_norm, lines 283-286, from pair k of
\* zip(self._opt_vars, x_norm) on: the dictionary afterwards and whether an
\* assignment raised (the loop ends there)
RECURSIVE NormLoop(_, _, _, _)
NormLoop(dict, free, x_norm, k) ==
  IF k > Len(free) \/ k > Len(x_norm) THEN [dict |-> dict, raised |-> FALSE]
  ELSE LET i == free[k]
           value == DenormaliseValue(x_norm[k], dict[i].lower_bound,
                                     dict[i].upper_bound)
           set == SetValue(dict[i], value)
       IN  IF set.raised THEN [dict |-> dict, raised |-> TRUE]
           ELSE NormLoop([dict EXCEPT ![i] = set.var], free, x_norm, k + 1)

\* the normalised vectors given to set_values_from_norm
NormVectors ==
  {<<>>} \cup {<<h>> : h \in NormInputs}
         \cup {<<h, g>> : h \in NormInputs, g \in NormInputs}

\* one call OptVariables.set_values_from_norm(x_norm)
SetValuesFromNormCall(x_norm) ==
  /\ IF Len(x_norm) # Len(OptVars(var_dict))
     THEN /\ var_dict' = var_dict
          /\ last_op' = Op("set_values_from_norm", "", TRUE)
     ELSE LET res == NormLoop(var_dict, OptVars(var_dict), x_norm, 1)
          IN  /\ var_dict' = res.dict
              /\ last_op' = Op("set_values_from_norm", "", res.raised)
  /\ UNCHANGED not_opt_vars

\* OptVariables.set_values_from_norm with any vector
SetValuesFromNorm == \E x_norm \in NormVectors : SetValuesFromNormCall(x_norm)

OptNext ==
  \/ AddVariable
  \/ RemoveVariable
  \/ AssignValue
  \/ AdjustDirect
  \/ AdjustVariable
  \/ FixVariable
  \/ SetValuesFromNorm

(***************************************************************************)
(* Properties of the optimisation variables (checked under OptSpec)        *)
(***************************************************************************)
\* the fraction q lies in [0, 1]
InUnitInterval(q) == q # <<>> /\ 0 <= q.num /\ q.num <= q.den

\* C19 (as claimed): every variable that is not fixed has its value within
\* its bounds, lower_bound <= value <= upper_bound, after any sequence of
\* constructions, value assignments and adjust calls (those that raise
\* included), so that its normalised value lies in [0, 1] (whenever the two
\* bounds differ).
C19_FreeValueWithinBounds ==
  \A i \in 1..Len(var_dict) :
    LET v == var_dict[i]
    IN  ~v.fixed =>
          /\ v.lower_bound <= v.value
          /\ v.value <= v.upper_bound
          /\ v.lower_bound < v.upper_bound =>
               InUnitInterval(NormaliseValue(v.value, v.lower_bound,
                                             v.upper_bound))

\* the operations that write the value or the bounds of one variable
Writers == {"value", "adjust", "adjust_variable"}

\* C20: once a variable is fixed, assigning its value, calling adjust on it
\* and calling adjust_variable for it raise and leave its value, its two
\* bounds and its fixed flag as they were (the whole set, in fact), and
\* set_values_from_norm leaves the value of every fixed variable as it was.
C20_FixedIsFrozen ==
  [][\A i \in 1..Len(var_dict) :
       var_dict[i].fixed =>
         /\ (last_op'.op \in Writers /\ last_op'.name = var_dict[i].name) =>
              (last_op'.raised /\ var_dict' = var_dict)
         /\ last_op'.op = "set_values_from_norm" =>
              (Len(var_dict') = Len(var_dict) /\ var_dict'[i] = var_dict[i])
    ]_vars

\* adjust_variable has just raised for a fixed variable whose value lies
\* outside its bounds, in a set that holds a free variable as well
C20_Witness ==
  /\ last_op.op = "adjust_variable"
  /\ last_op.raised
  /\ Len(var_dict) = 2
  /\ \E i, j \in 1..2 :
       /\ var_dict[i].name = last_op.name
       /\ var_dict[i].fixed
       /\ var_dict[i].value > var_dict[i].upper_bound
       /\ ~var_dict[j].fixed

\* set_values_from_norm has just changed the free variable of a set whose
\* first variable is fixed
C20_WitnessNorm ==
  /\ last_op.op = "set_values_from_norm"
  /\ ~last_op.raised
  /\ Len(var_dict) = 2
  /\ var_dict[1].fixed
  /\ ~var_dict[2].fixed
  /\ var_dict[2].value = 1

\* the bound b of a variable after a call that gives the argument arg for it
NewBound(b, arg) == IF arg # None THEN arg ELSE b

\* C21: adjust_variable on a free variable of the set installs the bounds
\* given and validates the value given against the bounds as they are after
\* the call, not as they were before it: when the new bounds are in order, a
\* value within them is accepted and becomes the value (also when it lies
\* outside the old bounds), and a value outside them is rejected with the
\* error (also when it lies within the old bounds).
C21_ValueAgainstNewBounds ==
  [][(/\ last_op'.op = "adjust_variable"
      /\ ~Absent(var_dict, last_op'.name)
      /\ ~var_dict[IndexOf(var_dict, last_op'.name)].fixed) =>
       \A value \in OptValues, lower_bound \in Optional,
          upper_bound \in Optional :
         AdjustVariableCall(last_op'.name, value, lower_bound, upper_bound) =>
           LET i == IndexOf(var_dict, last_op'.name)
               lb == NewBound(var_dict[i].lower_bound, lower_bound)
               ub == NewBound(var_dict[i].upper_bound, upper_bound)
           IN  lb <= ub =>
                 /\ var_dict'[i].lower_bound = lb
                 /\ var_dict'[i].upper_bound = ub
                 /\ (lb <= value /\ value <= ub) =>
                      (~last_op'.raised /\ var_dict'[i].value = value)
                 /\ ~(lb <= value /\ value <= ub) =>
                      (/\ last_op'.raised
                       /\ var_dict'[i].value = var_dict[i].value)
    ]_vars

\* adjust_variable has just accepted a value that lies outside the bounds the
\* variable had before the call
C21_Witness ==
  /\ last_op.op = "adjust_variable"
  /\ ~last_op.raised
  /\ last_op.old # <<>>
  /\ \E i \in 1..Len(var_dict) :
       /\ var_dict[i].name = last_op.name
       /\ var_dict[i].value # last_op.old.value
       /\ var_dict[i].value > last_op.old.upper_bound
       /\ var_dict[i].value <= var_dict[i].upper_bound

\* adjust_variable has just rejected a value for a free variable whose new
\* bounds are in order and differ from the old ones, which held both values
\* of OptValues: the value given lies within the old bounds and outside the
\* new ones
C21_WitnessRejected ==
  /\ last_op.op = "adjust_variable"
  /\ last_op.raised
  /\ last_op.old # <<>>
  /\ ~last_op.old.fixed
  /\ \A value \in OptValues :
       last_op.old.lower_bound <= value /\ value <= last_op.old.upper_bound
  /\ \E i \in 1..Len(var_dict) :
       /\ var_dict[i].name = last_op.name
       /\ var_dict[i].lower_bound <= var_dict[i].upper_bound
       /\ var_dict[i].lower_bound # last_op.old.lower_bound

\* the operations of the set that take the name of a variable of the set
ByName == {"remove_variable", "adjust_variable", "fix_variable"}

\* C23: an operation of the set whose precondition fails raises and leaves
\* the whole set (names, order, values, bounds, fixed flags) as it was:
\* add_variable with a name already there, remove_variable, adjust_variable
\* and fix_variable with a name not there, and set_values_from_norm with a
\* vector whose length is not the number of free variables.
C23_FailedPreconditionNoChange ==
  [][/\ (/\ last_op'.op = "add_variable"
          /\ IndexOf(var_dict, last_op'.name) # 0) =>
           (last_op'.raised /\ var_dict' = var_dict)
     /\ (/\ last_op'.op \in ByName
          /\ IndexOf(var_dict, last_op'.name) = 0) =>
           (last_op'.raised /\ var_dict' = var_dict)
     /\ last_op'.op = "set_values_from_norm" =>
          \A x_norm \in NormVectors :
            (/\ Len(x_norm) # Cardinality({i \in 1..Len(var_dict) :
                                             ~var_dict[i].fixed})
             /\ SetValuesFromNormCall(x_norm)) =>
              (last_op'.raised /\ var_dict' = var_dict)
    ]_vars

\* adjust_variable has just raised for a name that is not in the set, which
\* holds the other variable
C23_Witness ==
  /\ last_op.op = "adjust_variable"
  /\ last_op.raised
  /\ IndexOf(var_dict, last_op.name) = 0
  /\ Len(var_dict) = 1

\* add_variable has just raised for a name that is in the set, which holds
\* both variables
C23_WitnessDuplicate ==
  /\ last_op.op = "add_variable"
  /\ last_op.raised
  /\ IndexOf(var_dict, last_op.name) # 0
  /\ Len(var_dict) = 2

\* C29 (as claimed): when adjust raises on a variable (the new lower bound
\* above the upper bound, or the value outside the bounds), the variable is
\* left exactly as it was before the call: its value and its two bounds are
\* unchanged.
C29_AdjustRaiseNoChange ==
  [][(last_op'.op = "adjust" /\ last_op'.raised) =>
       \A i \in 1..Len(var_dict) :
         var_dict[i].name = last_op'.name =>
           /\ var_dict'[i].value = var_dict[i].value
           /\ var_dict'[i].lower_bound = var_dict[i].lower_bound
           /\ var_dict'[i].upper_bound = var_dict[i].upper_bound
    ]_vars

(***************************************************************************)
(* Normalisation in double precision (opt_variables.py).  The values of    *)
(* the sets above are whole numbers, on which the arithmetic of Python     *)
(* floats is exact.  Here a float is an IEEE 754 double: a sign and a      *)
(* magnitude counted in units of 2^-56 and held in two limbs of 30 bits,   *)
(* magnitude = hi * 2^30 + lo, of which a double keeps the 53 leading      *)
(* bits.  Every sum and difference is rounded to the nearest double, ties  *)
(* to the even mantissa, as the hardware does.                             *)
(***************************************************************************)
\* 2^30, the base of the limbs
LimbBase == 1073741824

\* 2^23: a magnitude whose high limb is below it has at most 53 bits
MantissaTop == 8388608

Dbl(neg, hi, lo) == [neg |-> neg, hi |-> hi, lo |-> lo]

\* the doubles 0.0, 0.4, 1.5, 2.0, 2.9, -4.7 and -2.8 (float.hex: 0x0.0p+0,
\* 0x1.999999999999ap-2, 0x1.8p+0, 0x1.0p+1, 0x1.7333333333333p+1,
\* -0x1.2cccccccccccdp+2, -0x1.6666666666666p+1)
DZero == Dbl(FALSE, 0, 0)

DoubleInputs ==
  {DZero, Dbl(FALSE, 26843545, 644245096), Dbl(FALSE, 100663296, 0),
   Dbl(FALSE, 134217728, 0), Dbl(FALSE, 194615705, 644245088),
   Dbl(TRUE, 315411660, 858993472), Dbl(TRUE, 187904819, 214748352)}

\* the entries of x_norm within [0, 1], in halves: 0.0, 0.5, 1.0
UnitInputs == 0..2

MagLess(a, b) == a.hi < b.hi \/ (a.hi = b.hi /\ a.lo < b.lo)

\* a <= b on doubles
DLeq(a, b) ==
  IF a.neg # b.neg THEN a.neg
  ELSE IF a.neg THEN ~MagLess(a, b) ELSE ~MagLess(b, a)

DNeg(a) == IF a.hi = 0 /\ a.lo = 0 THEN a ELSE Dbl(~a.neg, a.hi, a.lo)

\* the sum of two magnitudes and the difference of a magnitude and a
\* smaller one, exactly
MagAdd(a, b) ==
  [hi |-> a.hi + b.hi + (a.lo + b.lo) \div LimbBase,
   lo |-> (a.lo + b.lo) % LimbBase]

MagSub(a, b) ==
  IF a.lo >= b.lo THEN [hi |-> a.hi - b.hi, lo |-> a.lo - b.lo]
  ELSE [hi |-> a.hi - b.hi - 1, lo |-> a.lo - b.lo + LimbBase]

\* a + b, exactly
ExactAdd(a, b) ==
  IF a.neg = b.neg
  THEN Dbl(a.neg, MagAdd(a, b).hi, MagAdd(a, b).lo)
  ELSE IF MagLess(a, b) THEN Dbl(b.neg, MagSub(b, a).hi, MagSub(b, a).lo)
  ELSE IF MagLess(b, a) THEN Dbl(a.neg, MagSub(a, b).hi, MagSub(a, b).lo)
  ELSE DZero

\* the weight of the last of the 53 leading bits of a magnitude with the
\* high limb hi
RECURSIVE Ulp(_)
Ulp(hi) == IF hi < MantissaTop THEN 1 ELSE 2 * Ulp(hi \div 2)

\* the nearest double of an exact result, ties to the even mantissa
RoundToNearestEven(a) ==
  LET u == Ulp(a.hi)
      r == a.lo % u
      down == a.lo - r
      up == 2 * r > u \/ (2 * r = u /\ (down \div u) % 2 = 1)
      lo == IF up THEN down + u ELSE down
  IN  Dbl(a.neg, a.hi + lo \div LimbBase, lo % LimbBase)

\* a + b and a - b of Python floats
DAdd(a, b) == RoundToNearestEven(ExactAdd(a, b))

DSub(a, b) == RoundToNearestEven(ExactAdd(a, DNeg(b)))

\* (h / 2) * a of Python floats, h a unit input: exact (0, a half, the whole)
DTimesHalves(h, a) ==
  IF h = 0 THEN DZero
  ELSE IF h = 2 THEN a
  ELSE Dbl(a.neg, a.hi \div 2, a.lo \div 2 + (a.hi % 2) * (LimbBase \div 2))

\* denormalise_value(v_norm, lower_bound, upper_bound) on doubles, v_norm
\* in halves
DenormaliseDouble(h, lower_bound, upper_bound) ==
  DAdd(lower_bound, DTimesHalves(h, DSub(upper_bound, lower_bound)))

\* BoundedVariable._validate_value raises, on doubles
ValueErrorDouble(value, lower_bound, upper_bound) ==
  ~(DLeq(lower_bound, value) /\ DLeq(value, upper_bound))

\* normalise_value(value, lower_bound, upper_bound) = h / 2 on doubles, h a
\* unit input.  With n = value - lower_bound and d = upper_bound -
\* lower_bound (both rounded), the rounded quotient n / d is 0 exactly when
\* n is 0, 1 exactly when n = d, and 0.5 exactly when 2 n = d: two doubles
\* that differ are apart by more than half a unit in the last place of
\* their quotient.
NormalisedIs(h, value, lower_bound, upper_bound) ==
  LET n == DSub(value, lower_bound)
      d == DSub(upper_bound, lower_bound)
  IN  ExactAdd(n, n) = ExactAdd(DTimesHalves(h, d), DTimesHalves(h, d))

\* an OptVariables of one free variable, built from doubles with
\* lower_bound < upper_bound and its value at one of the bounds
NormInit ==
  /\ \E lower_bound \in DoubleInputs, upper_bound \in DoubleInputs :
       /\ DLeq(lower_bound, upper_bound)
       /\ lower_bound # upper_bound
       /\ \E value \in {lower_bound, upper_bound} :
            d_var = [value |-> value, lower_bound |-> lower_bound,
                     upper_bound |-> upper_bound]
  /\ d_x = None
  /\ d_pc = "built"
  /\ d_norm = {}
  /\ CircuitIdle
  /\ CageIdle
  /\ OptIdle
  /\ BuilderIdle
  /\ MeshIdle

\* OptVariables.set_values_from_norm([h / 2]) on the set of one free
\* variable: the value is denormalised and assigned through the setter,
\* which validates it
NormSetValuesFromNorm ==
  /\ d_pc = "built"
  /\ \E h \in UnitInputs :
       LET value == DenormaliseDouble(h, d_var.lower_bound, d_var.upper_bound)
       IN  /\ d_x' = h
           /\ IF ValueErrorDouble(value, d_var.lower_bound, d_var.upper_bound)
              THEN d_pc' = "raised" /\ d_var' = d_var
              ELSE d_pc' = "set" /\ d_var' = [d_var EXCEPT !.value = value]
  /\ UNCHANGED <<d_norm, not_norm_vars>>

\* OptVariables.get_normalised_values() on the set of one free variable
NormGetNormalisedValues ==
  /\ d_pc = "set"
  /\ d_norm' = {h \in UnitInputs :
                  NormalisedIs(h, d_var.value, d_var.lower_bound,
                               d_var.upper_bound)}
  /\ d_pc' = "got"
  /\ UNCHANGED <<d_var, d_x, not_norm_vars>>

NormNext ==
  \/ NormSetValuesFromNorm
  \/ NormGetNormalisedValues

\* C22 (as claimed): for a set whose free variables have lower_bound <
\* upper_bound, set_values_from_norm(x) with every entry of x in [0, 1]
\* does not raise, and get_normalised_values() after it returns x.
C22_NormRoundTrip ==
  /\ d_pc # "raised"
  /\ d_pc = "got" => d_norm = {d_x}

(***************************************************************************)
(* PROCESSTemplateBuilder (src/bluemira/codes/process/template_builder.py).*)
(* The tables ITERATION_VAR_MAPPING, VAR_ITERATION_MAPPING,                *)
(* FV_CONSTRAINT_ITVAR_MAPPING and OBJECTIVE_MIN_ONLY are imported from    *)
(* _equation_variable_mapping; a few of their entries stand for them.      *)
(* Dictionaries are functions, str(x) is the pair <<"str", x>>.  The       *)
(* warnings (bluemira_warn) change no state and are left out.              *)
(***************************************************************************)
\* the names given by the caller: two iteration variables, one of them an
\* impurity fraction, and a name that is no iteration variable
BuilderNames == {"fdene", "fimp(13)", "nope"}

\* the values and the bounds given by the caller (0 is the float 0.0)
ValueArgs == {None, 1}

LowerArgs == {None, 0, 2}

UpperArgs == {None, 6}

\* the constraints given by the caller: one f-value constraint, one other
ConstraintArgs == {2, 5}

\* the objectives given by the caller
Objectives == {1, 16}

\* the impurities given to add_impurity, by their number: Impurities.H and
\* Impurities.Xe
ImpurityArgs == {1, 13}

\* the concentration given to add_impurity
ImpurityValues == {1}

\* the titles given to set_run_title
RunTitles == {"run"}

\* the inputs given to add_input_value, <<name, value>>: a title and an
\* impurity concentration
InputItems == {<<"runtitle", "run">>, <<"fimp(13)", 1>>}

\* the mappings given to add_input_values, as the items of the dict in
\* their order
InputMappings ==
  {<<>>, << <<"fimp(13)", 1>> >>,
   << <<"runtitle", "run">>, <<"fimp(13)", 1>> >>}

\* ITERATION_VAR_MAPPING.get(name, None)
IterationVar(name) ==
  IF name = "fdene" THEN 9 ELSE IF name = "fimp(13)" THEN 135 ELSE None

\* VAR_ITERATION_MAPPING[itvar]
VarIteration(itvar) == IF itvar = 9 THEN "fdene" ELSE "fimp(13)"

\* FV_CONSTRAINT_ITVAR_MAPPING
FvConstraintItvar == (5 :> 9)

\* the test `minmax in OBJECTIVE_MIN_ONLY` never true
MinOnly_Never(objective) == FALSE

\* minmax in OBJECTIVE_MIN_ONLY
MinOnly(objective) == objective \in {16, 19}

\* the truth value of an optional number: None and 0.0 are false
Truthy(x) == x # None /\ x # 0

\* str(x)
Str(x) == <<"str", x>>

\* mapping[key] = value
Put(mapping, key, value) == (key :> value) @@ mapping

\* x in the list
InList(x, list) == \E i \in 1..Len(list) : list[i] = x

\* the builder as it stands, for the operators below
Builder ==
  [ixc |-> ixc, variables |-> variables, bounds |-> bounds,
   constraints |-> constraints, fimp |-> fimp, values |-> values,
   raised |-> FALSE]

\* "fimp(" in name
IsImpurityName(name) == name = "fimp(13)"

\* int(name.strip("fimp(")[:2])
ImpurityNum(name) == IF name = "fimp(13)" THEN 13 ELSE 0

\* add_impurity(impurity, value), impurity.value = num: self.fimp[num - 1]
\* is written, the entry num of the list counted from 1
AddImpurityOn(b, num, value) ==
  [b EXCEPT !.fimp = [@ EXCEPT ![num] = value]]

\* _add_to_dict(mapping, name, value), mapping being self.variables or
\* self.values
AddToDict(b, mapping, name, value) ==
  IF IsImpurityName(name)
  THEN AddImpurityOn(b, ImpurityNum(name), value)
  ELSE [b EXCEPT ![mapping] = Put(@, name, value)]

\* set_run_title(run_title), lines 71-75: the title is written into
\* self.values directly
SetRunTitleOn(b, run_title) ==
  [b EXCEPT !.values = Put(@, "runtitle", run_title)]

\* add_input_value(name, value)
AddInputValueOn(b, name, value) == AddToDict(b, "values", name, value)

\* add_input_values(mapping): add_input_value for the items from the k-th on
RECURSIVE AddInputValuesFrom(_, _, _)
AddInputValuesFrom(b, items, k) ==
  IF k > Len(items) THEN b
  ELSE AddInputValuesFrom(AddInputValueOn(b, items[k][1], items[k][2]),
                          items, k + 1)

\* adjust_variable for a variable in the list, lines 207-215: the bounds
\* given are written into the entry, which is made when there is none
AdjustInList(b, name, itvar, value, lower_bound, upper_bound) ==
  LET b1 == AddToDict(b, "variables", name, value)
      key == Str(itvar)
      bd0 == IF (Truthy(lower_bound) \/ Truthy(upper_bound))
                /\ key \notin DOMAIN b1.bounds
             THEN Put(b1.bounds, key, <<>>) ELSE b1.bounds
      bd1 == IF Truthy(lower_bound)
             THEN Put(bd0, key, Put(bd0[key], "l", Str(lower_bound)))
             ELSE bd0
      bd2 == IF Truthy(upper_bound)
             THEN Put(bd1, key, Put(bd1[key], "u", Str(upper_bound)))
             ELSE bd1
  IN  [b1 EXCEPT !.bounds = bd2]

\* add_variable, lines 180-187: the entry of the bounds is replaced by one
\* that holds the bounds given
AddBounds(b, itvar, lower_bound, upper_bound) ==
  LET l == IF Truthy(lower_bound) THEN ("l" :> Str(lower_bound)) ELSE <<>>
      u == IF Truthy(upper_bound) THEN ("u" :> Str(upper_bound)) ELSE <<>>
  IN  IF Truthy(lower_bound) \/ Truthy(upper_bound)
      THEN [b EXCEPT !.bounds = Put(@, Str(itvar), u @@ l)]
      ELSE b

\* add_variable that appends to the list without looking
AddVariableOn_AlwaysAppend(b, name, value, lower_bound, upper_bound) ==
  LET itvar == IterationVar(name)
  IN  IF ~Truthy(itvar) THEN [b EXCEPT !.raised = TRUE]
      ELSE AddBounds(AddToDict([b EXCEPT !.ixc = Append(@, itvar)],
                               "variables", name, value),
                     itvar, lower_bound, upper_bound)

\* add_variable(name, value, lower_bound, upper_bound); for a variable in
\* the list it calls adjust_variable, which takes its branch for a variable
\* in the list
AddVariableOn(b, name, value, lower_bound, upper_bound) ==
  LET itvar == IterationVar(name)
      b1 == IF InList(itvar, b.ixc)
            THEN AdjustInList(b, name, itvar, value, lower_bound, upper_bound)
            ELSE AddToDict([b EXCEPT !.ixc = Append(@, itvar)], "variables",
                           name, value)
  IN  IF ~Truthy(itvar) THEN [b EXCEPT !.raised = TRUE]
      ELSE AddBounds(b1, itvar, lower_bound, upper_bound)

\* adjust_variable(name, value, lower_bound, upper_bound); for a variable
\* not in the list it calls add_variable
AdjustVariableOn(b, name, value, lower_bound, upper_bound) ==
  LET itvar == IterationVar(name)
  IN  IF ~Truthy(itvar) THEN [b EXCEPT !.raised = TRUE]
      ELSE IF ~InList(itvar, b.ixc)
      THEN AddVariableOn(b, name, value, lower_bound, upper_bound)
      ELSE AdjustInList(b, name, itvar, value, lower_bound, upper_bound)

\* add_fvalue_constraint(constraint, value, lower_bound, upper_bound)
AddFvalueConstraintOn(b, constraint, value, lower_bound, upper_bound) ==
  IF constraint \notin DOMAIN FvConstraintItvar
  THEN [b EXCEPT !.raised = TRUE]
  ELSE LET b1 == [b EXCEPT !.constraints = Append(@, constraint)]
           itvar == FvConstraintItvar[constraint]
       IN  IF ~InList(itvar, b1.ixc)
           THEN AddVariableOn(b1, VarIteration(itvar), value, lower_bound,
                              upper_bound)
           ELSE b1

\* add_constraint(constraint)
AddConstraintOn(b, constraint) ==
  IF constraint \in DOMAIN FvConstraintItvar
  THEN AddFvalueConstraintOn(b, constraint, None, None, None)
  ELSE [b EXCEPT !.constraints = Append(@, constraint)]

\* the record of a call
BuilderOp(op, name, num, raised, listed) ==
  [op |-> op, name |-> name, num |-> num, raised |-> raised,
   listed |-> listed]

\* PROCESSTemplateBuilder()
BuilderInit ==
  /\ ixc = <<>>
  /\ variables = <<>>
  /\ bounds = <<>>
  /\ constraints = <<>>
  /\ fimp = [i \in 1..14 |-> 0]
  /\ minmax = 0
  /\ values = <<>>
  /\ tb_last = BuilderOp("init", "", 0, FALSE, FALSE)
  /\ CircuitIdle
  /\ CageIdle
  /\ OptIdle
  /\ NormIdle
  /\ MeshIdle

\* the builder becomes b after the call recorded as last
BuilderBecomes(b, last) ==
  /\ ixc' = b.ixc
  /\ variables' = b.variables
  /\ bounds' = b.bounds
  /\ constraints' = b.constraints
  /\ fimp' = b.fimp
  /\ values' = b.values
  /\ tb_last' = last
  /\ UNCHANGED <<minmax, not_builder_vars>>

\* one call add_variable(name, value, lower_bound, upper_bound)
BuilderAddVariableCall(name, value, lower_bound, upper_bound) ==
  LET b == AddVariableOn(Builder, name, value, lower_bound, upper_bound)
  IN  BuilderBecomes(b, BuilderOp("add_variable", name, IterationVar(name),
                                  b.raised, InList(IterationVar(name), ixc)))

\* add_variable with any arguments
BuilderAddVariable ==
  \E name \in BuilderNames, value \in ValueArgs, lower_bound \in LowerArgs,
     upper_bound \in UpperArgs :
    BuilderAddVariableCall(name, value, lower_bound, upper_bound)

\* adjust_variable with any arguments
BuilderAdjustVariable ==
  \E name \in BuilderNames, value \in ValueArgs, lower_bound \in LowerArgs,
     upper_bound \in UpperArgs :
    LET b == AdjustVariableOn(Builder, name, value, lower_bound, upper_bound)
    IN  BuilderBecomes(b, BuilderOp("adjust_variable", name,
                                    IterationVar(name), b.raised,
                                    InList(IterationVar(name), ixc)))

\* add_constraint with any constraint
AddConstraint ==
  /\ Len(constraints) < MaxConstraints
  /\ \E constraint \in ConstraintArgs :
       LET b == AddConstraintOn(Builder, constraint)
       IN  BuilderBecomes(b, BuilderOp("add_constraint", "", constraint,
                                       b.raised,
                                       constraint \in DOMAIN FvConstraintItvar
                                       /\ InList(FvConstraintItvar[constraint],
                                                 ixc)))

\* add_fvalue_constraint with any arguments
AddFvalueConstraint ==
  /\ Len(constraints) < MaxConstraints
  /\ \E constraint \in ConstraintArgs, value \in ValueArgs,
        lower_bound \in LowerArgs, upper_bound \in UpperArgs :
       LET b == AddFvalueConstraintOn(Builder, constraint, value, lower_bound,
                                      upper_bound)
       IN  BuilderBecomes(b, BuilderOp("add_fvalue_constraint", "", constraint,
                                       b.raised,
                                       constraint \in DOMAIN FvConstraintItvar
                                       /\ InList(FvConstraintItvar[constraint],
                                                 ixc)))

\* set_minimisation_objective(objective)
SetMinimisationObjective ==
  \E objective \in Objectives :
    /\ minmax' = objective
    /\ tb_last' = BuilderOp("set_minimisation_objective", "", objective,
                            FALSE, FALSE)
    /\ UNCHANGED <<ixc, variables, bounds, constraints, fimp, values,
                   not_builder_vars>>

\* set_maximisation_objective(objective)
SetMaximisationObjective ==
  \E objective \in Objectives :
    /\ minmax' = IF MinOnly(objective) THEN minmax ELSE 0 - objective
    /\ tb_last' = BuilderOp("set_maximisation_objective", "", objective,
                            MinOnly(objective), FALSE)
    /\ UNCHANGED <<ixc, variables, bounds, constraints, fimp, values,
                   not_builder_vars>>

\* set_run_title(run_title)
SetRunTitle ==
  \E run_title \in RunTitles :
    BuilderBecomes(SetRunTitleOn(Builder, run_title),
                   BuilderOp("set_run_title", run_title, 0, FALSE, FALSE))

\* add_impurity(impurity, value)
AddImpurity ==
  \E num \in ImpurityArgs, value \in ImpurityValues :
    BuilderBecomes(AddImpurityOn(Builder, num, value),
                   BuilderOp("add_impurity", "", num, FALSE, FALSE))

\* add_input_value(name, value); listed when the name had a value, which is
\* then reported as over-written
AddInputValue ==
  \E item \in InputItems :
    BuilderBecomes(AddInputValueOn(Builder, item[1], item[2]),
                   BuilderOp("add_input_value", item[1], 0, FALSE,
                             item[1] \in DOMAIN values))

\* add_input_values(mapping)
AddInputValues ==
  \E mapping \in InputMappings :
    BuilderBecomes(AddInputValuesFrom(Builder, mapping, 1),
                   BuilderOp("add_input_values", "", 0, FALSE,
                             FALSE))

BuilderNext ==
  \/ BuilderAddVariable
  \/ BuilderAdjustVariable
  \/ SetRunTitle
  \/ AddImpurity
  \/ AddInputValue
  \/ AddInputValues
  \/ AddConstraint
  \/ AddFvalueConstraint
  \/ SetMinimisationObjective
  \/ SetMaximisationObjective

(***************************************************************************)
(* Properties of the template builder (checked under BuilderSpec)          *)
(***************************************************************************)
\* C24: set_maximisation_objective with an objective that can only be
\* minimised raises and leaves minmax as it was, with any other objective
\* it sets minmax to minus the number of the objective;
\* set_minimisation_objective sets minmax to the number of the objective;
\* and no other call changes minmax, so that minmax shows the last of these
\* calls that succeeded.
C24_ObjectiveSign ==
  [][/\ tb_last'.op = "set_maximisation_objective" =>
          IF tb_last'.num \in {16, 19}
          THEN tb_last'.raised /\ minmax' = minmax
          ELSE ~tb_last'.raised /\ minmax' = 0 - tb_last'.num
     /\ tb_last'.op = "set_minimisation_objective" =>
          (~tb_last'.raised /\ minmax' = tb_last'.num)
     /\ tb_last'.op \notin {"set_maximisation_objective",
                            "set_minimisation_objective"} =>
          minmax' = minmax
    ]_vars

\* set_maximisation_objective has just raised on a builder whose objective
\* was being maximised, and the objective is still that one
C24_Witness ==
  /\ tb_last.op = "set_maximisation_objective"
  /\ tb_last.raised
  /\ minmax < 0

\* C27: after any sequence of add_variable, adjust_variable, add_constraint
\* and add_fvalue_constraint calls the list ixc holds no iteration-variable
\* number more than once.
C27_IxcNoDuplicates ==
  \A i, j \in 1..Len(ixc) : i # j => ixc[i] # ixc[j]

\* add_variable has just been called for a variable that was in the list
\* already, after an f-value constraint was added, and the list holds the
\* two iteration variables
C27_Witness ==
  /\ tb_last.op = "add_variable"
  /\ tb_last.listed
  /\ ~tb_last.raised
  /\ Len(ixc) = 2
  /\ constraints = <<5>>

\* add_fvalue_constraint has just been called for a constraint whose
\* iteration variable was in the list already
C27_WitnessFvalue ==
  /\ tb_last.op = "add_fvalue_constraint"
  /\ tb_last.listed
  /\ ~tb_last.raised
  /\ ixc = <<135, 9>>

\* C28 (as claimed): add_variable for an iteration variable that is in the
\* list already leaves the value and the bounds recorded as adjust_variable
\* with the same arguments would: a bound given replaces that bound, a
\* bound not given stays as recorded.
C28_AddListedIsAdjust ==
  [][(tb_last'.op = "add_variable" /\ tb_last'.listed) =>
       \A value \in ValueArgs, lower_bound \in LowerArgs,
          upper_bound \in UpperArgs :
         BuilderAddVariableCall(tb_last'.name, value, lower_bound,
                                upper_bound) =>
           LET adj == AdjustVariableOn(Builder, tb_last'.name, value,
                                       lower_bound, upper_bound)
           IN  /\ variables' = adj.variables
               /\ fimp' = adj.fimp
               /\ bounds' = adj.bounds
    ]_vars

(***************************************************************************)
(* _get_mesh_boundary (src/bluemira/equilibria/fem_fixed_boundary/file.py).*)
(* The exterior boundary of the mesh comes from dolfin (BoundaryMesh): its *)
(* vertices are numbered from 1, and its edges are stored as rows          *)
(* <<v0, v1>>, counted from 1, in some order and with some orientation.    *)
(***************************************************************************)
\* the edges of the simple cycle 1 - 2 - ... - n - 1, in both orientations
OrientedCycleEdges(n) ==
  {<<i, (i % n) + 1>> : i \in 1..n} \cup {<<(i % n) + 1, i>> : i \in 1..n}

\* the ways a boundary that is a simple cycle of n edges may be stored:
\* every edge once, in any order, with any orientation
StoredCycles(n) ==
  {e \in [1..n -> OrientedCycleEdges(n)] :
     \A k, l \in 1..n : k # l => {e[k][1], e[k][2]} # {e[l][1], e[l][2]}}

\* Vertex(boundary, v).point().array(): the point of the vertex v
VertexPoint(v) == <<v, v * v>>

\* the test check_edge[e] == 1 always true
NotWalked_Always(check, e) == TRUE

\* check_edge[e] == 1
NotWalked(check, e) == check[e] = 1

\* np.where(edges == temp_v)[0]: the rows that hold the vertex, ascending
Connected(stored, v) ==
  SelectSeq([r \in 1..Len(stored) |-> r],
            LAMBDA r : stored[r][1] = v \/ stored[r][2] = v)

\* the boundary of a mesh has been extracted
MeshInit ==
  /\ \E n \in 3..MaxEdges : edges \in StoredCycles(n)
  /\ check_edge = <<>>
  /\ index = 0
  /\ temp_edge = <<>>
  /\ sorted_v = <<>>
  /\ mesh_i = 0
  /\ mesh_pc = "start"
  /\ points_sorted = <<>>
  /\ CircuitIdle
  /\ CageIdle
  /\ OptIdle
  /\ NormIdle
  /\ BuilderIdle

\* lines 79-86: the walk starts on the first edge stored, at its first end
MeshStart ==
  /\ mesh_pc = "start"
  /\ check_edge' = [e \in 1..Len(edges) |-> 1]
  /\ index' = 1
  /\ temp_edge' = edges[1]
  /\ sorted_v' = <<edges[1][1]>>
  /\ mesh_pc' = "loop"
  /\ UNCHANGED <<edges, mesh_i, points_sorted, not_mesh_vars>>

\* one iteration of the loop, lines 88-94; either list may be empty, and
\* its first element is then an IndexError
MeshLoop ==
  /\ mesh_pc = "loop"
  /\ mesh_i < Len(edges) - 1
  /\ LET fresh == SelectSeq(temp_edge, LAMBDA v : ~InList(v, sorted_v))
         temp_v == fresh[1]
         checked == [check_edge EXCEPT ![index] = 0]
         free == SelectSeq(Connected(edges, temp_v),
                           LAMBDA e : NotWalked(checked, e))
     IN  IF fresh = <<>>
         THEN /\ mesh_pc' = "error"
              /\ UNCHANGED <<check_edge, index, temp_edge, sorted_v, mesh_i>>
         ELSE IF free = <<>>
         THEN /\ mesh_pc' = "error"
              /\ sorted_v' = Append(sorted_v, temp_v)
              /\ check_edge' = checked
              /\ UNCHANGED <<index, temp_edge, mesh_i>>
         ELSE /\ sorted_v' = Append(sorted_v, temp_v)
              /\ check_edge' = checked
              /\ index' = free[1]
              /\ temp_edge' = edges[free[1]]
              /\ mesh_i' = mesh_i + 1
              /\ mesh_pc' = "loop"
  /\ UNCHANGED <<edges, points_sorted, not_mesh_vars>>

\* lines 96-100: the points of the vertices walked are returned
MeshReturn ==
  /\ mesh_pc = "loop"
  /\ mesh_i = Len(edges) - 1
  /\ points_sorted' = [k \in 1..Len(sorted_v) |-> VertexPoint(sorted_v[k])]
  /\ mesh_pc' = "done"
  /\ UNCHANGED <<edges, check_edge, index, temp_edge, sorted_v, mesh_i,
                 not_mesh_vars>>

MeshNext ==
  \/ MeshStart
  \/ MeshLoop
  \/ MeshReturn

\* the two points are the ends of one edge of the boundary
EndsOfOneEdge(p, q) ==
  \E k \in 1..Len(edges) :
    {VertexPoint(edges[k][1]), VertexPoint(edges[k][2])} = {p, q}

\* the points of the vertices of the boundary
BoundaryPoints ==
  {VertexPoint(edges[k][1]) : k \in 1..Len(edges)}
    \cup {VertexPoint(edges[k][2]) : k \in 1..Len(edges)}

\* C26: for a boundary that is one simple cycle of n edges, stored in any
\* order and with any orientation, _get_mesh_boundary raises nothing and
\* terminates, and the n points it returns hold the point of every boundary
\* vertex exactly once, every two consecutive points (the last and the
\* first included) being the ends of one boundary edge.
C26_BoundaryWalk ==
  /\ [](/\ mesh_pc # "error"
        /\ mesh_pc = "done" =>
             /\ Len(points_sorted) = Len(edges)
             /\ {points_sorted[k] : k \in 1..Len(points_sorted)}
                  = BoundaryPoints
             /\ \A k, l \in 1..Len(points_sorted) :
                  k # l => points_sorted[k] # points_sorted[l]
             /\ \A k \in 1..Len(points_sorted) :
                  EndsOfOneEdge(points_sorted[k],
                                points_sorted[(k % Len(points_sorted)) + 1]))
  /\ <>(mesh_pc = "done")

\* the boundary of five edges has been walked, the second edge stored does
\* not touch the first, and the third is stored against the direction of
\* the walk
C26_Witness ==
  /\ mesh_pc = "done"
  /\ Len(edges) = 5
  /\ {edges[1][1], edges[1][2]} \cap {edges[2][1], edges[2][2]} = {}
  /\ \E k \in 1..4 :
       /\ sorted_v[k] = edges[3][2]
       /\ sorted_v[k + 1] = edges[3][1]

(***************************************************************************)
(* Specifications: one per component, the other components left idle       *)
(***************************************************************************)
\* the construction of one planar circuit
CircuitSpec == CircuitInit /\ [][CircuitNext]_vars

\* the construction and use of one Helmholtz cage
CageSpec == CageInit /\ [][CageNext]_vars

\* the use of one set of optimisation variables
OptSpec == OptInit /\ [][OptNext]_vars

\* the normalisation round trip of one variable in double precision
NormSpec == NormInit /\ [][NormNext]_vars

\* the use of one template builder
BuilderSpec == BuilderInit /\ [][BuilderNext]_vars

\* one call of _get_mesh_boundary, which runs to its end once started
MeshSpec == MeshInit /\ [][MeshNext]_vars /\ WF_vars(MeshNext)

====
